---- MODULE Spec2Model ----
(***************************************************************************)
(* Football pipeline of beara_bones: the filesystem lock (football/        *)
(* locking.py), the two management commands run_football_pipeline and      *)
(* rebuild_football_from_minio, the standalone football.pipeline           *)
(* run_pipeline, and the run tracker run_with_pipeline_run.                *)
(*                                                                         *)
(* Specifications:                                                         *)
(*   SpecLock  a client calling acquire_lock / release_lock /              *)
(*             pipeline_lock one call after the other;                     *)
(*   SpecCmd   concurrently started management commands;                   *)
(*   Spec      concurrently started invocations of all three entrypoints;  *)
(*   SpecRun   one invocation, every stage outcome and store content;      *)
(*   FairRun   SpecRun with the invocation's process always scheduled;     *)
(*   SpecTrack callers of run_with_pipeline_run and latest_successful_run; *)
(*   SpecLoad  a caller of load_fixtures_dataframe;                        *)
(*   SpecIngest a caller of run_ingest, request by request;                *)
(*   SpecClean a caller of transform.clean;                                *)
(*   SpecRead  the loader next to a dashboard read;                        *)
(*   SpecOps   all entrypoints, the rebuild trigger, is_stale_lock and the *)
(*             operator.                                                   *)
(***************************************************************************)
EXTENDS Integers, Sequences, FiniteSets, Bags, TLC

\* ------------------------------------------------------------------ bounds
NumProcs == 2
MaxLeagues == 2
MaxCalls == 4
MaxRuns == 2
MaxClock == 1
MaxLoads == 3
MaxRows == 3
MaxPages == 2
MaxIngests == 2
MaxReadLoads == 2

\* ------------------------------------------------------------- program data
\* football/ingest.py DEFAULT_LEAGUE, DEFAULT_SEASON: the defaults of
\* run_pipeline, and the League / Season rows the data migration seeds.
DEFAULT_LEAGUE == 39
DEFAULT_SEASON == 2025

VARIABLES
    lockDir,    \* data/football exists (LOCK_FILE.parent)
    lock,       \* the marker .refresh.lock: 0 absent, n > 0 present and last
                \* created/touched by invocation n (stands for its mtime)
    kind,       \* kind[p]: which entrypoint invocation p is
    skip,       \* skip[p]: run_pipeline's skip_ingest argument
    pc,         \* pc[p]: position of invocation p in its code
    idx,        \* idx[p]: index of the (league, season) pair being handled
    df,         \* df[p]: the invocation's local DataFrame (a table or NoDF)
    exc,        \* exc[p]: message of the exception in flight, "" if none
    held,       \* held[p]: p is between its successful acquire and its release
    result,     \* result[p]: how the invocation ended
    tag,        \* tag[p]: source tag of the tracked unit in progress
    runId,      \* runId[p]: id of the PipelineRun row of the unit in progress
    leagues,    \* list(League.objects.all()) as ids
    seasons,    \* list(Season.objects.all()) as api_year
    raw,        \* raw[k]: object raw/league_{l}_season_{s}.json
    processed,  \* processed[k]: object processed/league_{l}_season_{s}.parquet
    rows,       \* the Fixture table of the relational store, a bag of rows
    runs,       \* PipelineRun rows, in creation order (id = position)
    cache,      \* the Django cache holds a dashboard fragment
    crests,     \* team ids t with an object crests/team_{t}.png
    client,     \* SpecLock: the client of the lock library
    now,        \* timezone.now(), the clock of the host
    tracker,    \* SpecTrack: the callers of the run tracker
    loader,     \* SpecLoad: the caller of load_fixtures_dataframe
    ingester,   \* SpecIngest: the caller of run_ingest
    cleaner,    \* SpecClean: the caller of clean
    site        \* the web site: its admin views and its dashboard reads

vars == <<lockDir, lock, kind, skip, pc, idx, df, exc, held, result, tag, runId,
          leagues, seasons, raw, processed, rows, runs, cache, crests, client,
          now, tracker, loader, ingester, cleaner, site>>

procVars == <<kind, skip, pc, idx, df, exc, held, result, tag, runId>>
dataVars == <<leagues, seasons, raw, processed, rows, runs, cache>>
unitVars == <<ingester, cleaner, site>>
libVars == <<crests, now, tracker, loader, unitVars>>

Procs == 1..NumProcs
\* A holder that is not one of the modelled invocations (it crashed, or runs
\* elsewhere) and left the marker behind.
Other == NumProcs + 1

\* ------------------------------------------------------------ lock library
\* Path.exists()
PathExists(l) == l # 0

\* Path.mkdir(parents=True, exist_ok=True)
Mkdir(d) == TRUE

\* Path.touch(exist_ok=True): creates the file or updates its mtime.
TouchAny(l, by) == [ok |-> TRUE, lock |-> by]

\* Path.touch(exist_ok=False): O_CREAT|O_EXCL; FileExistsError when present.
TouchNotExclusive(l, by) == [ok |-> TRUE, lock |-> by]

TouchExclusive(l, by) ==
    IF PathExists(l) THEN [ok |-> FALSE, lock |-> l]
                     ELSE [ok |-> TRUE, lock |-> by]

\* acquire_lock's early return: `if path.exists() and fail_if_exists`.
AcquireCheckFails(l, fail_if_exists) == PathExists(l) /\ fail_if_exists

\* acquire_lock(path, fail_if_exists) called with nothing in between its steps.
AcquireLockRacy(l, by, fail_if_exists) ==
    [ret |-> TRUE, lock |-> TouchAny(l, by).lock]

AcquireLock(l, by, fail_if_exists) ==
    IF AcquireCheckFails(l, fail_if_exists)
    THEN [ret |-> FALSE, lock |-> l]
    ELSE LET t == TouchExclusive(l, by) IN [ret |-> t.ok, lock |-> t.lock]

\* release_lock(path): unlink(missing_ok=True).
ReleaseLock(l) == 0

\* pipeline_lock(path): nothing on entry ...
PipelineLockEnter(l, by) == l

\* ... and release_lock(path) in its finally, on return and on raise alike.
PipelineLockExitNoFinally(l, raised) == IF raised THEN l ELSE ReleaseLock(l)

PipelineLockExit(l, raised) == ReleaseLock(l)

\* pipeline_lock has no except clause: what the work raised is raised again
\* by the with statement once the finally has run.
ScopedRaises(raised) == raised

\* ------------------------------------------------------------------- data
LeagueIds == DEFAULT_LEAGUE..(DEFAULT_LEAGUE + MaxLeagues - 1)
AllPairs == LeagueIds \X {DEFAULT_SEASON}

\* API responses / raw artifacts: rawM has a fixture entry that is not an
\* object (flatten_fixtures raises on it), rawE has an empty response array,
\* rawA holds fixtures.
Responses == {"rawM", "rawE", "rawA"}
NoObject == "none"
\* DataFrames: tE is the empty one, tOld the rows of an earlier load.
Tables == {"tE", "tA", "tOld"}
NoDF == "NoDF"

RUNNING == "RUNNING"
SUCCESS == "SUCCESS"
FAILED == "FAILED"

SRC_FULL == "mgmt_cmd_run_football_pipeline"
SRC_PROCESSED == "mgmt_cmd_rebuild_from_minio_processed"
SRC_RAW == "mgmt_cmd_rebuild_from_minio_raw"

\* `for league in leagues: for season in seasons` as the list of pairs.
RECURSIVE PairsOf(_, _)
PairsOf(ls, ss) ==
    IF ls = <<>> THEN <<>>
    ELSE [i \in 1..Len(ss) |-> <<Head(ls), ss[i]>>] \o PairsOf(Tail(ls), ss)

Pairs == PairsOf(leagues, seasons)

\* flatten_fixtures then clean, on a raw artifact that parsed.
FlattenClean(r) == IF r = "rawE" THEN "tE" ELSE "tA"

\* DataFrame.empty
IsEmpty(t) == t = "tE"

\* None / NULL / NaN in an integer column or argument (real ids are positive).
Null == 0

\* One fixture row, reduced to the columns the loader and its callers look at.
Row(f, l, y) == [fixture_id |-> f, league_id |-> l, league_season |-> y]

\* The rows of DataFrame t when it was produced for scope k: flatten_fixtures
\* copies league.id and league.season of the API response into each row.
Frame(t, k) ==
    IF t = "tE" THEN <<>>
    ELSE IF t = "tA" THEN <<Row(1, k[1], k[2])>>
    ELSE <<Row(0, k[1], k[2])>>

\* ----------------------------------------------- load_fixtures_dataframe
\* Fixture.objects.filter(league_id=league_id, league_season=season).delete()
DeleteScope(store, l, y) ==
    LET keep == {r \in DOMAIN store : ~(r.league_id = l /\ r.league_season = y)}
    IN [r \in keep |-> store[r]]

\* The Fixture objects built from the DataFrame: a row's own league_id /
\* league_season when it is not NaN, else the arguments.
Records(table, l, y) ==
    [i \in 1..Len(table) |->
        Row(table[i].fixture_id,
            IF table[i].league_id # Null THEN table[i].league_id ELSE l,
            IF table[i].league_season # Null THEN table[i].league_season ELSE y)]

\* Fixture.objects.bulk_create(records)
BulkCreate(store, records) ==
    store (+) [r \in {records[i] : i \in 1..Len(records)} |->
                 Cardinality({i \in 1..Len(records) : records[i] = r})]

\* `if df.empty: return 0` ... `return len(records)`
LoadReturnsDistinct(table, l, y) ==
    Cardinality({Records(table, l, y)[i] : i \in 1..Len(table)})

LoadReturns(table, l, y) == IF table = <<>> THEN 0 ELSE Len(Records(table, l, y))

\* Fixture.objects.filter(league_id=l, league_season=y): the rows of a scope.
RowsOfScope(store, l, y) ==
    LET own == {r \in DOMAIN store : r.league_id = l /\ r.league_season = y}
    IN [r \in own |-> store[r]]

\* The Fixture table after an earlier load of every pair.
OldRows == SetToBag({Row(0, k[1], k[2]) : k \in AllPairs})

\* ------------------------------------------------- SpecLock: library client
\* The client makes up to MaxCalls calls, one after the other, each in the
\* name of a caller c.  client.hist holds the return values of the
\* acquire_lock(path, fail_if_exists=True) calls made since the marker was
\* last absent (initially, or after a release); client.pure says that nothing
\* but such calls touched the marker since then.
NoCall == [op |-> "none", by |-> 0, fail |-> FALSE, before |-> 0,
           ret |-> FALSE, raised |-> FALSE]

ClientInit ==
    [pc |-> "idle", by |-> 0, raises |-> FALSE, worked |-> FALSE, before |-> 0,
     calls |-> 0, hist |-> <<>>, pure |-> TRUE, last |-> NoCall]

ClientOff == [ClientInit EXCEPT !.pc = "off"]

\* acquire_lock(path, fail_if_exists=f) by caller c.
LkAcquire(c, f) ==
    /\ client.pc = "idle" /\ client.calls < MaxCalls
    /\ LET r == AcquireLock(lock, c, f) IN
        /\ lockDir' = Mkdir(lockDir)
        /\ lock' = r.lock
        /\ client' = [client EXCEPT
              !.calls = @ + 1,
              !.hist = IF f THEN Append(@, r.ret) ELSE @,
              !.pure = @ /\ (f \/ r.lock = lock),
              !.last = [op |-> "acquire", by |-> c, fail |-> f, before |-> lock,
                        ret |-> r.ret, raised |-> FALSE]]
    /\ UNCHANGED <<procVars, dataVars, libVars>>

\* release_lock(path) by caller c.
LkRelease(c) ==
    /\ client.pc = "idle" /\ client.calls < MaxCalls
    /\ lock' = ReleaseLock(lock)
    /\ client' = [client EXCEPT
          !.calls = @ + 1, !.hist = <<>>, !.pure = TRUE,
          !.last = [op |-> "release", by |-> c, fail |-> FALSE, before |-> lock,
                    ret |-> FALSE, raised |-> FALSE]]
    /\ UNCHANGED <<lockDir, procVars, dataVars, libVars>>

\* `with pipeline_lock(path):` entered by caller c; the work will raise or not.
LkScopedEnter(c, raises) ==
    /\ client.pc = "idle" /\ client.calls < MaxCalls
    /\ lock' = PipelineLockEnter(lock, c)
    /\ client' = [client EXCEPT
          !.pc = "in_scope", !.by = c, !.raises = raises, !.worked = FALSE,
          !.before = lock, !.calls = @ + 1]
    /\ UNCHANGED <<lockDir, procVars, dataVars, libVars>>

\* The wrapped work creates, touches or removes the marker itself.
LkWork(effect) ==
    /\ client.pc = "in_scope" /\ ~client.worked
    /\ lock' = IF effect = "touch" THEN TouchAny(lock, client.by).lock
                                   ELSE ReleaseLock(lock)
    /\ client' = [client EXCEPT !.worked = TRUE, !.pure = FALSE]
    /\ UNCHANGED <<lockDir, procVars, dataVars, libVars>>

\* The with block is left: the finally of pipeline_lock, then the work's
\* exception (if any) goes on to the caller.
LkScopedExit ==
    /\ client.pc = "in_scope"
    /\ lock' = PipelineLockExit(lock, client.raises)
    /\ client' = [client EXCEPT
          !.pc = "idle", !.hist = <<>>, !.pure = (lock' = 0),
          !.last = [op |-> "scoped", by |-> client.by, fail |-> FALSE,
                    before |-> client.before, ret |-> FALSE,
                    raised |-> ScopedRaises(client.raises)]]
    /\ UNCHANGED <<lockDir, procVars, dataVars, libVars>>

\* ------------------------------------------------------------ invocations
FULL == "full"              \* manage.py run_football_pipeline
REBUILD == "rebuild"        \* manage.py rebuild_football_from_minio
STANDALONE == "standalone"  \* python -m football.pipeline (run_pipeline)

Set(f, p, v) == [f EXCEPT ![p] = v]

\* The scope an invocation is working on: the pair of the loop, or the
\* league / season arguments of run_pipeline (its defaults).
Scope(p) ==
    IF kind[p] = STANDALONE THEN <<DEFAULT_LEAGUE, DEFAULT_SEASON>>
                            ELSE Pairs[idx[p]]

\* First statement of the loop body of each command.
FirstStageIngest(k) == "ingest"

FirstStage(k) == IF k = FULL THEN "ingest" ELSE "read_processed"

\* Where control goes once pair i of n is finished: the next pair, or the code
\* after the loops (cache clear in run_football_pipeline, the end of the with
\* block in rebuild_football_from_minio).
AfterPair(k, i, n) ==
    IF i < n THEN [pc |-> FirstStage(k), idx |-> i + 1]
    ELSE [pc |-> IF k = FULL THEN "cache_clear" ELSE "release", idx |-> i]

\* `except Exception as exc:` around run_with_pipeline_run in both commands:
\* the failure is written to stdout and the loop goes on.
OnTrackedFailureAbort(k, i, n) == [pc |-> "release", idx |-> i]

OnTrackedFailure(k, i, n) == AfterPair(k, i, n)

\* An exception raised at a statement: inside run_with_pipeline_run's try it
\* goes to the tracker's except clause; anywhere else in the with block (or in
\* run_pipeline's try) nothing catches it and it unwinds through the finally.
RaiseTo(tracked) == IF tracked THEN "track_fail" ELSE "release"

Raise(p, msg) ==
    /\ exc' = Set(exc, p, msg)
    /\ pc' = Set(pc, p, RaiseTo(runId[p] # 0))

\* Lock conflict: `raise SystemExit(1)` before the with block of a command, or
\* `return 1` before the try of run_pipeline.  Nothing else is touched.
LockConflictExitReleasing(p) ==
    /\ result' = Set(result, p, "lock_conflict")
    /\ pc' = Set(pc, p, "done")
    /\ lock' = ReleaseLock(lock)
    /\ UNCHANGED <<lockDir, kind, skip, idx, df, exc, held, tag, runId, dataVars, client, libVars>>

LockConflictExit(p) ==
    /\ result' = Set(result, p, "lock_conflict")
    /\ pc' = Set(pc, p, "done")
    /\ UNCHANGED <<lockDir, lock, kind, skip, idx, df, exc, held, tag, runId,
                   dataVars, client, libVars>>

\* LOCK_FILE.parent.mkdir(...) in handle and again in acquire_lock;
\* DATA_DIR.mkdir(...) in run_pipeline.
StartMkdir(p) ==
    /\ pc[p] = "start"
    /\ lockDir' = Mkdir(lockDir)
    /\ pc' = Set(pc, p, IF kind[p] = STANDALONE THEN "sa_check" ELSE "acq_check")
    /\ UNCHANGED <<lock, kind, skip, idx, df, exc, held, result, tag, runId,
                   dataVars, client, libVars>>

\* acquire_lock(LOCK_FILE, fail_if_exists=True): the existence check.
AcquireCheck(p) ==
    /\ pc[p] = "acq_check"
    /\ IF AcquireCheckFails(lock, TRUE)
       THEN LockConflictExit(p)
       ELSE /\ pc' = Set(pc, p, "acq_touch")
            /\ UNCHANGED <<lockDir, lock, kind, skip, idx, df, exc, held, result,
                           tag, runId, dataVars, client, libVars>>

\* acquire_lock: the exclusive create; on success the command goes on to
\* `with pipeline_lock(LOCK_FILE):`.
AcquireTouch(p) ==
    /\ pc[p] = "acq_touch"
    /\ LET t == TouchExclusive(lock, p) IN
       IF t.ok
       THEN /\ lock' = t.lock
            /\ held' = Set(held, p, TRUE)
            /\ pc' = Set(pc, p, "enter")
            /\ UNCHANGED <<lockDir, kind, skip, idx, df, exc, result, tag, runId,
                           dataVars, client, libVars>>
       ELSE LockConflictExit(p)

\* run_pipeline: `if LOCK_FILE.exists(): ... return 1`.
SaCheck(p) ==
    /\ pc[p] = "sa_check"
    /\ IF PathExists(lock)
       THEN LockConflictExit(p)
       ELSE /\ pc' = Set(pc, p, "sa_touch")
            /\ UNCHANGED <<lockDir, lock, kind, skip, idx, df, exc, held, result,
                           tag, runId, dataVars, client, libVars>>

\* run_pipeline: `LOCK_FILE.touch()`, first statement of the try.
SaTouch(p) ==
    /\ pc[p] = "sa_touch"
    /\ lock' = TouchAny(lock, p).lock
    /\ held' = Set(held, p, TRUE)
    /\ pc' = Set(pc, p, IF skip[p] THEN "transform" ELSE "ingest")
    /\ UNCHANGED <<lockDir, kind, skip, idx, df, exc, result, tag, runId,
                   dataVars, client, libVars>>

\* `if not leagues or not seasons:` a warning, then `return` out of the with
\* block: nothing of the loops or of what follows them is run.
AfterEmptyConfigClear(k) == "cache_clear"

AfterEmptyConfig(k) == "release"

\* Entering the with block, then list(League.objects.all()),
\* list(Season.objects.all()) and the early return on an empty list.
Enumerate(p) ==
    /\ pc[p] = "enter"
    /\ lock' = PipelineLockEnter(lock, p)
    /\ IF leagues = <<>> \/ seasons = <<>>
       THEN pc' = Set(pc, p, AfterEmptyConfig(kind[p])) /\ idx' = idx
       ELSE pc' = Set(pc, p, FirstStage(kind[p])) /\ idx' = Set(idx, p, 1)
    /\ UNCHANGED <<lockDir, kind, skip, df, exc, held, result, tag, runId,
                   dataVars, client, libVars>>

\* ---------------------------------------------------------------- stages
\* Statement that follows each stage, per entrypoint.
AfterIngest(k) == IF k = FULL THEN "track_create" ELSE "transform"

AfterTrackCreatePublish(t) == "publish"

AfterTrackCreate(t) == IF t = SRC_FULL THEN "transform" ELSE "load_delete"

AfterTransformPublish(k) == "publish"

AfterTransform(k) ==
    IF k = FULL THEN "load_delete"
    ELSE IF k = REBUILD THEN "track_create" ELSE "local_build"

AfterInsertPublish(t) == "publish"

AfterInsert(t) == IF t = SRC_PROCESSED THEN "track_finish" ELSE "publish"

AfterPublish(k) == IF k = STANDALONE THEN "cache_clear" ELSE "track_finish"

\* sync_crests_from_response: the teams of the response whose crest is
\* stored when it is missing.
CrestTeams(resp) == IF resp = "rawA" THEN {1} ELSE {}

SyncCrests(cs, resp) == cs \cup CrestTeams(resp)

\* run_ingest(league, season): fetch_fixtures, ensure_bucket, crest sync, and
\* last upload_raw.  A failure of any of them leaves the raw object as it
\* was and raises; when upload_raw is what failed the crests are stored.
Ingest(p, resp, ok) ==
    /\ pc[p] = "ingest"
    /\ IF ok
       THEN /\ raw' = [raw EXCEPT ![Scope(p)] = resp]
            /\ crests' = SyncCrests(crests, resp)
            /\ pc' = Set(pc, p, AfterIngest(kind[p]))
            /\ tag' = Set(tag, p, IF kind[p] = FULL THEN SRC_FULL ELSE "")
            /\ exc' = exc
       ELSE /\ Raise(p, "ingest failed")
            /\ crests' \in {crests, SyncCrests(crests, resp)}
            /\ UNCHANGED <<raw, tag>>
    /\ UNCHANGED <<lockDir, lock, kind, skip, idx, df, held, result, runId,
                   leagues, seasons, processed, rows, runs, cache, client, now,
                   tracker, loader, unitVars>>

\* run_with_pipeline_run: PipelineRun.objects.create(... status=RUNNING ...).
NoTime == -1

NewRunFinished(k, source, t) ==
    [league_id |-> k[1], season_year |-> k[2], source |-> source,
     status |-> SUCCESS, error_summary |-> "", started_at |-> t,
     finished_at |-> t]

NewRun(k, source, t) ==
    [league_id |-> k[1], season_year |-> k[2], source |-> source,
     status |-> RUNNING, error_summary |-> "", started_at |-> t,
     finished_at |-> NoTime]

\* run_with_pipeline_run, else branch: the fields saved when execute returned.
RunSucceededNoStamp(run, t) == [run EXCEPT !.status = SUCCESS]

RunSucceeded(run, t) == [run EXCEPT !.status = SUCCESS, !.finished_at = t]

\* run_with_pipeline_run, except branch: the fields saved when execute raised.
RunFailedNoSummary(run, msg, t) ==
    [run EXCEPT !.status = FAILED, !.finished_at = t]

RunFailed(run, msg, t) ==
    [run EXCEPT !.status = FAILED, !.error_summary = msg, !.finished_at = t]

TrackCreate(p) ==
    /\ pc[p] = "track_create"
    /\ runs' = Append(runs, NewRun(Scope(p), tag[p], now))
    /\ runId' = Set(runId, p, Len(runs) + 1)
    /\ pc' = Set(pc, p, AfterTrackCreate(tag[p]))
    /\ UNCHANGED <<lockDir, lock, kind, skip, idx, df, exc, held, result, tag,
                   leagues, seasons, raw, processed, rows, cache, client, libVars>>

\* run_transform: load_raw_from_minio, flatten_fixtures, clean.  It raises
\* when the object is missing, cannot be read, or does not have the
\* expected shape.
TransformRaises(r, ok) == ~ok \/ r = NoObject \/ r = "rawM"

TransformError(r, ok) ==
    IF ~ok THEN "raw read failed"
    ELSE IF r = NoObject THEN "NoSuchKey" ELSE "AttributeError"

Transform(p, ok) ==
    /\ pc[p] = "transform"
    /\ LET r == raw[Scope(p)] IN
       IF TransformRaises(r, ok)
       THEN /\ Raise(p, TransformError(r, ok))
            /\ UNCHANGED <<df, tag>>
       ELSE /\ df' = Set(df, p, FlattenClean(r))
            /\ pc' = Set(pc, p, AfterTransform(kind[p]))
            /\ tag' = Set(tag, p, IF kind[p] = REBUILD THEN SRC_RAW ELSE tag[p])
            /\ exc' = exc
    /\ UNCHANGED <<lockDir, lock, kind, skip, idx, held, result, runId,
                   dataVars, client, libVars>>

\* run_pipeline only: load_csv_to_duckdb, build_views, soda scan, dbt build
\* (local files); then `if not df.empty:` decides whether to load.
LocalBuild(p, ok) ==
    /\ pc[p] = "local_build"
    /\ IF ok
       THEN /\ pc' = Set(pc, p, IF IsEmpty(df[p]) THEN "release" ELSE "load_delete")
            /\ exc' = exc
       ELSE Raise(p, "build_views failed")
    /\ UNCHANGED <<lockDir, lock, kind, skip, idx, df, held, result, tag, runId,
                   dataVars, client, libVars>>

\* load_fixtures_dataframe: Fixture.objects.filter(...).delete()
LoadDelete(p, ok) ==
    /\ pc[p] = "load_delete"
    /\ IF ok
       THEN /\ rows' = DeleteScope(rows, Scope(p)[1], Scope(p)[2])
            /\ pc' = Set(pc, p, "load_insert")
            /\ exc' = exc
       ELSE /\ Raise(p, "delete failed")
            /\ rows' = rows
    /\ UNCHANGED <<lockDir, lock, kind, skip, idx, df, held, result, tag, runId,
                   leagues, seasons, raw, processed, runs, cache, client, libVars>>

\* load_fixtures_dataframe: `if df.empty: return 0`, else bulk_create.
LoadInsert(p, ok) ==
    /\ pc[p] = "load_insert"
    /\ IF IsEmpty(df[p]) \/ ok
       THEN /\ rows' = IF IsEmpty(df[p]) THEN rows
                       ELSE BulkCreate(rows, Records(Frame(df[p], Scope(p)),
                                                     Scope(p)[1], Scope(p)[2]))
            /\ pc' = Set(pc, p, AfterInsert(tag[p]))
            /\ exc' = exc
       ELSE /\ Raise(p, "bulk_create failed")
            /\ rows' = rows
    /\ UNCHANGED <<lockDir, lock, kind, skip, idx, df, held, result, tag, runId,
                   leagues, seasons, raw, processed, runs, cache, client, libVars>>

\* upload_processed_parquet(df, league, season)
Publish(p, ok) ==
    /\ pc[p] = "publish"
    /\ IF ok
       THEN /\ processed' = [processed EXCEPT ![Scope(p)] = df[p]]
            /\ pc' = Set(pc, p, AfterPublish(kind[p]))
            /\ exc' = exc
       ELSE /\ Raise(p, "put_object failed")
            /\ processed' = processed
    /\ UNCHANGED <<lockDir, lock, kind, skip, idx, df, held, result, tag, runId,
                   leagues, seasons, raw, rows, runs, cache, client, libVars>>

\* run_with_pipeline_run, else branch: status SUCCESS, save, return; the
\* loop then goes to the next pair.
TrackFinish(p) ==
    /\ pc[p] = "track_finish"
    /\ runs' = [runs EXCEPT ![runId[p]] = RunSucceeded(@, now)]
    /\ LET a == AfterPair(kind[p], idx[p], Len(Pairs)) IN
       /\ pc' = Set(pc, p, a.pc)
       /\ idx' = Set(idx, p, a.idx)
    /\ runId' = Set(runId, p, 0)
    /\ tag' = Set(tag, p, "")
    /\ df' = Set(df, p, NoDF)
    /\ UNCHANGED <<lockDir, lock, kind, skip, exc, held, result,
                   leagues, seasons, raw, processed, rows, cache, client, libVars>>

\* run_with_pipeline_run, except branch: status FAILED, error_summary
\* str(exc), save, raise; then the command's `except Exception`.
TrackFail(p) ==
    /\ pc[p] = "track_fail"
    /\ runs' = [runs EXCEPT ![runId[p]] = RunFailed(@, exc[p], now)]
    /\ LET a == OnTrackedFailure(kind[p], idx[p], Len(Pairs)) IN
       /\ pc' = Set(pc, p, a.pc)
       /\ idx' = Set(idx, p, a.idx)
    /\ exc' = Set(exc, p, "")
    /\ runId' = Set(runId, p, 0)
    /\ tag' = Set(tag, p, "")
    /\ df' = Set(df, p, NoDF)
    /\ UNCHANGED <<lockDir, lock, kind, skip, held, result,
                   leagues, seasons, raw, processed, rows, cache, client, libVars>>

\* load_processed_parquet_from_minio: the table, or None when the object is
\* absent or the read fails (every exception is swallowed).
LoadProcessed(o, ok) == IF ok /\ o # NoObject THEN o ELSE NoDF

\* rebuild: `if df is not None and not df.empty:` takes the processed path.
UseProcessedIfPresent(d) == d # NoDF

UseProcessed(d) == d # NoDF /\ ~IsEmpty(d)

ReadProcessed(p, ok) ==
    /\ pc[p] = "read_processed"
    /\ LET d == LoadProcessed(processed[Scope(p)], ok) IN
       IF UseProcessed(d)
       THEN /\ df' = Set(df, p, d)
            /\ tag' = Set(tag, p, SRC_PROCESSED)
            /\ pc' = Set(pc, p, "track_create")
       ELSE /\ df' = Set(df, p, d)
            /\ tag' = tag
            /\ pc' = Set(pc, p, "raw_exists")
    /\ UNCHANGED <<lockDir, lock, kind, skip, idx, exc, held, result, runId,
                   dataVars, client, libVars>>

\* rebuild: _object_exists(raw_bucket, key) is False when stat_object raises.
ObjectExistsAlways(o, ok) == TRUE

ObjectExists(o, ok) == ok /\ o # NoObject

\* rebuild: no raw object: warning and `continue`; else run_transform next.
RawExists(p, ok) ==
    /\ pc[p] = "raw_exists"
    /\ IF ObjectExists(raw[Scope(p)], ok)
       THEN /\ pc' = Set(pc, p, "transform")
            /\ UNCHANGED <<idx, df>>
       ELSE /\ LET a == AfterPair(kind[p], idx[p], Len(Pairs)) IN
               /\ pc' = Set(pc, p, a.pc)
               /\ idx' = Set(idx, p, a.idx)
            /\ df' = Set(df, p, NoDF)
    /\ UNCHANGED <<lockDir, lock, kind, skip, exc, held, result, tag, runId,
                   dataVars, client, libVars>>

\* cache.clear() in a try / except-pass: after the loops of
\* run_football_pipeline, and at the end of _load_to_mariadb_and_minio.
CacheClear(p, ok) ==
    /\ pc[p] = "cache_clear"
    /\ cache' = IF ok THEN FALSE ELSE cache
    /\ pc' = Set(pc, p, "release")
    /\ UNCHANGED <<lockDir, lock, kind, skip, idx, df, exc, held, result, tag,
                   runId, leagues, seasons, raw, processed, rows, runs, client, libVars>>

\* run_pipeline's finally: `if LOCK_FILE.exists(): LOCK_FILE.unlink(...)`.
FinallyKeep(l) == l

FinallyUnlink(l) == IF PathExists(l) THEN 0 ELSE l

\* How an invocation that got past the lock ends: "ok" (status 0) when the
\* block was left normally, "exception" when an exception left it.
Outcome(e) == IF e = "" THEN "ok" ELSE "exception"

\* Process exit status (return value for run_pipeline).
ExitStatus(res) == IF res = "ok" THEN 0 ELSE 1

\* Leaving the with block of a command (return, end of block, or exception) or
\* the try of run_pipeline: the lock is released and the invocation ends.
Release(p) ==
    /\ pc[p] = "release"
    /\ lock' = IF kind[p] = STANDALONE THEN FinallyUnlink(lock)
               ELSE PipelineLockExit(lock, exc[p] # "")
    /\ held' = Set(held, p, FALSE)
    /\ result' = Set(result, p, Outcome(exc[p]))
    /\ pc' = Set(pc, p, "done")
    /\ UNCHANGED <<lockDir, kind, skip, idx, df, exc, tag, runId, dataVars, client, libVars>>

\* ------------------------------------------------- SpecTrack: run tracker
\* Callers of run_with_pipeline_run(league_id, season_year, source, execute)
\* and of latest_successful_run(league_id, season_year), each argument an id
\* or None.  Several callers may be inside the tracker at the same time.
\* The scopes runs are tracked for: one pair, one league over all seasons,
\* and everything.
TrackScopes ==
    {<<DEFAULT_LEAGUE, DEFAULT_SEASON>>, <<DEFAULT_LEAGUE, Null>>, <<Null, Null>>}

\* What the execute callable does: it returns, raises an Exception, or is
\* ended by a BaseException that is not an Exception (KeyboardInterrupt,
\* SystemExit).
WorkOutcomes == {"return", "raise", "interrupt"}

\* str() of the Exception the callable raises.
WorkError == "boom"

NoAnswer == [league |-> Null, season |-> Null, id |-> -1]

\* tracker.last describes the call that ended most recently: its arguments,
\* how it ended, the id of the record it returned and the message of the
\* exception that reached its caller.
NoTracked ==
    [ended |-> "none", scope |-> <<Null, Null>>, source |-> "", id |-> 0,
     ret |-> 0, raised |-> ""]

TrackerInit ==
    [pc |-> [p \in Procs |-> "idle"],
     scope |-> [p \in Procs |-> <<Null, Null>>],
     stamp |-> [p \in Procs |-> 0],
     id |-> [p \in Procs |-> 0],
     last |-> NoTracked,
     answer |-> NoAnswer]

\* `except Exception` catches what execute raised, unless it is a
\* BaseException outside Exception.
TrackerCatches(outcome) == outcome = "raise"

\* The bare `raise` of the except clause: the caller gets the same exception.
Reraise(msg) == msg

\* The call starts: PipelineRun.objects.create(...) takes timezone.now() for
\* started_at (auto_now_add) before the row is inserted.
TkCall(p, k) ==
    /\ tracker.pc[p] = "idle"
    /\ Len(runs) + Cardinality({q \in Procs : tracker.pc[q] = "create"}) < MaxRuns
    /\ tracker' = [tracker EXCEPT
          !.pc[p] = "create", !.scope[p] = k, !.stamp[p] = now]
    /\ UNCHANGED <<lockDir, lock, procVars, dataVars, client, crests, now, loader, unitVars>>

\* The INSERT: the database assigns the next id.
TkInsert(p) ==
    /\ tracker.pc[p] = "create"
    /\ runs' = Append(runs, NewRun(tracker.scope[p], SRC_FULL, tracker.stamp[p]))
    /\ tracker' = [tracker EXCEPT
          !.pc[p] = "execute", !.id[p] = Len(runs) + 1, !.stamp[p] = 0,
          !.answer = NoAnswer]
    /\ UNCHANGED <<lockDir, lock, procVars, leagues, seasons, raw, processed,
                   rows, cache, client, crests, now, loader, unitVars>>

\* execute() ends and the tracker's except / else branch runs.
TkExecute(p, outcome) ==
    /\ tracker.pc[p] = "execute"
    /\ LET i == tracker.id[p]
           call == [NoTracked EXCEPT !.scope = tracker.scope[p],
                                     !.source = SRC_FULL, !.id = i]
           idle == [tracker EXCEPT !.pc[p] = "idle", !.id[p] = 0,
                                   !.scope[p] = <<Null, Null>>,
                                   !.answer = NoAnswer]
       IN
       IF outcome = "return"
       THEN /\ runs' = [runs EXCEPT ![i] = RunSucceeded(@, now)]
            /\ tracker' = [idle EXCEPT
                  !.last = [call EXCEPT !.ended = "returned", !.ret = i]]
       ELSE IF TrackerCatches(outcome)
       THEN /\ runs' = [runs EXCEPT ![i] = RunFailed(@, WorkError, now)]
            /\ tracker' = [idle EXCEPT
                  !.last = [call EXCEPT !.ended = "raised",
                                        !.raised = Reraise(WorkError)]]
       ELSE /\ runs' = runs
            /\ tracker' = [idle EXCEPT
                  !.last = [call EXCEPT !.ended = "interrupted",
                                        !.raised = "KeyboardInterrupt"]]
    /\ UNCHANGED <<lockDir, lock, procVars, leagues, seasons, raw, processed,
                   rows, cache, client, crests, now, loader, unitVars>>

\* Time passes.
Tick ==
    /\ now < MaxClock
    /\ now' = now + 1
    /\ UNCHANGED <<lockDir, lock, procVars, dataVars, client, crests, tracker, loader, unitVars>>

\* latest_successful_run: the three filters ...
FilterRuns(rs, ids, l, y) ==
    LET qs0 == SelectSeq(ids, LAMBDA i : rs[i].status = SUCCESS)
        qs1 == IF l # Null THEN SelectSeq(qs0, LAMBDA i : rs[i].league_id = l)
                           ELSE qs0
    IN IF y # Null THEN SelectSeq(qs1, LAMBDA i : rs[i].season_year = y)
                   ELSE qs1

\* ... order_by("-started_at", "-id"): row i comes before row j ...
ComesBeforeAscending(rs, i, j) ==
    \/ rs[i].started_at < rs[j].started_at
    \/ rs[i].started_at = rs[j].started_at /\ i < j

ComesBefore(rs, i, j) ==
    \/ rs[i].started_at > rs[j].started_at
    \/ rs[i].started_at = rs[j].started_at /\ i > j

RECURSIVE OrderBy(_, _)
OrderBy(rs, ids) ==
    IF ids = <<>> THEN <<>>
    ELSE LET h == Head(ids)
             t == OrderBy(rs, Tail(ids))
         IN SelectSeq(t, LAMBDA j : ComesBefore(rs, j, h)) \o <<h>>
              \o SelectSeq(t, LAMBDA j : ~ComesBefore(rs, j, h))

\* ... and .first(): the id of the first row, None (Null) for an empty result.
First(ids) == IF ids = <<>> THEN Null ELSE Head(ids)

LatestSuccessfulRun(rs, l, y) ==
    First(OrderBy(rs, FilterRuns(rs, [i \in 1..Len(rs) |-> i], l, y)))

\* A query made after tracked runs, when no tracked call is in progress.
TkQuery(l, y) ==
    /\ \A p \in Procs : tracker.pc[p] = "idle"
    /\ tracker' = [tracker EXCEPT
          !.answer = [league |-> l, season |-> y,
                      id |-> LatestSuccessfulRun(runs, l, y)]]
    /\ UNCHANGED <<lockDir, lock, procVars, dataVars, client, crests, now, loader, unitVars>>

\* ------------------------------------- SpecLoad: load_fixtures_dataframe
\* A caller of load_fixtures_dataframe(df, league_id, season), one call after
\* the other.  The DataFrames it passes: the empty one, one row carrying the
\* league and season of a configured pair (which need not be the pair it is
\* loaded for), and two identical rows without league and season values.
LoadTables ==
    {<<>>, <<Row(2, Null, Null), Row(2, Null, Null)>>}
        \cup {<<Row(1, k[1], k[2])>> : k \in AllPairs}

\* loader.last and loader.prev describe the last two calls that ended: the
\* arguments, the Fixture table before the call, how it ended and what it
\* returned.
NoLoad ==
    [table |-> <<>>, scope |-> <<Null, Null>>, before |-> EmptyBag,
     ended |-> "none", ret |-> -1]

LoaderInit ==
    [pc |-> "idle", calls |-> 0, call |-> NoLoad, last |-> NoLoad, prev |-> NoLoad]

LoadEnds(ld, how, ret) ==
    [ld EXCEPT !.pc = "idle", !.call = NoLoad, !.prev = ld.last,
               !.last = [ld.call EXCEPT !.ended = how, !.ret = ret]]

\* The call and its first statement, the delete of the scope's rows.
LdDelete(t, k, ok) ==
    /\ loader.pc = "idle" /\ loader.calls < MaxLoads
    /\ LET ld == [loader EXCEPT
                    !.calls = @ + 1,
                    !.call = [NoLoad EXCEPT !.table = t, !.scope = k,
                                            !.before = rows]]
       IN IF ok
          THEN /\ rows' = DeleteScope(rows, k[1], k[2])
               /\ loader' = [ld EXCEPT !.pc = "insert"]
          ELSE /\ rows' = rows
               /\ loader' = LoadEnds(ld, "raised", -1)
    /\ UNCHANGED <<lockDir, lock, procVars, leagues, seasons, raw, processed,
                   runs, cache, client, crests, now, tracker, unitVars>>

\* `if df.empty: return 0`, else the records, bulk_create and the return.
LdInsert(ok) ==
    /\ loader.pc = "insert"
    /\ LET t == loader.call.table
           l == loader.call.scope[1]
           y == loader.call.scope[2]
       IN IF t = <<>>
          THEN /\ rows' = rows
               /\ loader' = LoadEnds(loader, "returned", LoadReturns(t, l, y))
          ELSE IF ok
          THEN /\ rows' = BulkCreate(rows, Records(t, l, y))
               /\ loader' = LoadEnds(loader, "returned", LoadReturns(t, l, y))
          ELSE /\ rows' = rows
               /\ loader' = LoadEnds(loader, "raised", -1)
    /\ UNCHANGED <<lockDir, lock, procVars, leagues, seasons, raw, processed,
                   runs, cache, client, crests, now, tracker, unitVars>>

\* ---------------------------------------------------- SpecIngest: run_ingest
\* A caller of run_ingest(league, season), one call after the other, each
\* followed request by request: fetch_fixtures and its pagination, the
\* bucket check, sync_crests_from_response with _ensure_crest per team, and
\* upload_raw.
\* Team ids as the API sends them (JSON numbers); Null is a team without id,
\* Malformed an id that int() rejects.
TeamIds == {1, 2}

Malformed == -1

\* One entry of the response array: an object with its two teams, or
\* something that is not an object (no .get).
Item(h, a) == [obj |-> TRUE, home |-> h, away |-> a]

NotAnObject == [obj |-> FALSE, home |-> Null, away |-> Null]

Items == {Item(1, 2), Item(2, 1), Item(1, Null), Item(Malformed, 2), NotAnObject}

\* Result arrays of the first page and of the pages after it.
FirstPages == {<<>>} \cup {<<i>> : i \in Items}

MorePages == {<<>>, <<Item(2, 1)>>}

\* data["paging"]["total"], or no "paging" key at all.
NoPaging == Null

Totals == {NoPaging} \cup 1..MaxPages

\* The raw artifact json.dumps(data) makes, as the transform sees it.
RawOf(data) ==
    IF data = <<>> THEN "rawE"
    ELSE IF \E i \in 1..Len(data) : ~data[i].obj THEN "rawM"
    ELSE "rawA"

\* fetch_fixtures: `if "paging" in data and data.get("response"):`
FollowsPages(page, total) == total # NoPaging /\ page # <<>>

\* fetch_fixtures: `for page in range(2, total_pages + 1)`
LastPageExclusive(total) == total - 1

LastPage(total) == total

\* int(tid)
ToInt(tid) == tid

\* sync_crests_from_response, one side of one item:
\* `if tid is not None and tid not in seen:` seen.add(int(tid)), append.
AddTeam(acc, tid) ==
    IF tid = Null \/ tid \in {acc[i] : i \in 1..Len(acc)}
    THEN [raised |-> FALSE, teams |-> acc]
    ELSE IF tid = Malformed THEN [raised |-> TRUE, teams |-> acc]
    ELSE [raised |-> FALSE, teams |-> Append(acc, ToInt(tid))]

\* sync_crests_from_response, the loop over the response array from item i
\* on: teams_to_fetch, or the exception of item.get / int(tid).
RECURSIVE Collect(_, _, _)
Collect(data, i, acc) ==
    IF i > Len(data) THEN [raised |-> FALSE, teams |-> acc]
    ELSE IF ~data[i].obj THEN [raised |-> TRUE, teams |-> acc]
    ELSE LET h == AddTeam(acc, data[i].home) IN
         IF h.raised THEN h
         ELSE LET a == AddTeam(h.teams, data[i].away) IN
              IF a.raised THEN a ELSE Collect(data, i + 1, a.teams)

\* client.stat_object(bucket, key): the object is there, or S3 answers
\* NoSuchKey, or the request fails.
StatObject(cs, t, ok) ==
    IF ~ok THEN "error" ELSE IF t \in cs THEN "found" ELSE "absent"

\* crests._object_exists: True when stat_object returned, False when it raised.
CrestExistsNever(reply) == FALSE

CrestExists(reply) == reply = "found"

\* What happens to a crest that was not found: the logo URL is not http(s),
\* the download fails, the body is empty, put_object fails, or it is stored.
CrestOutcomes ==
    {"invalid_url", "download_error", "empty_body", "put_error", "stored"}

\* _ensure_crest(client, bucket, team_id, logo_url): had tells whether the
\* object was in the store, stat what the store answered, fetched whether a
\* download was requested, wrote whether put_object stored the crest.
EnsureCrest(cs, t, ok, outcome) ==
    LET reply == StatObject(cs, t, ok)
        exists == CrestExists(reply)
    IN [team |-> t, had |-> t \in cs, stat |-> reply,
        fetched |-> ~exists /\ outcome # "invalid_url",
        wrote |-> ~exists /\ outcome = "stored"]

\* One call of run_ingest in progress: its arguments, whether RAPIDAPI_KEY
\* is set, the page numbers requested, the result arrays received,
\* all_response, what fetch_fixtures returned, teams_to_fetch, what
\* _ensure_crest did for each team so far, and whether the raw object was put.
NoIngest ==
    [scope |-> <<Null, Null>>, cred |-> FALSE, requests |-> <<>>, got |-> <<>>,
     total |-> NoPaging, acc |-> <<>>, data |-> <<>>, todo |-> <<>>,
     handled |-> <<>>, wrote |-> FALSE]

\* The call that ended most recently: how it ended (and in which stage it
\* raised), the key it returned, and whether its crest sync ran to the end
\* and left the crest of every team of the response in the store.
NoIngested ==
    [scope |-> <<Null, Null>>, cred |-> FALSE, requests |-> <<>>, data |-> <<>>,
     wrote |-> FALSE, how |-> "none", stage |-> "", key |-> <<Null, Null>>,
     synced |-> FALSE]

\* While a call is in progress, what is kept of the call before it: the
\* response it synced crests for, when that sync left every crest stored.
NoSync == [data |-> <<>>, synced |-> FALSE]

SyncOf(last) == IF last.synced THEN [data |-> last.data, synced |-> TRUE] ELSE NoSync

IngesterInit ==
    [pc |-> "idle", calls |-> 0, cur |-> NoIngest, last |-> NoIngested,
     before |-> NoSync]

\* The call ends: an exception leaves run_ingest, or it returns the key.
IngestEnds(cur, how, stage) ==
    [ingester EXCEPT !.pc = "idle", !.cur = NoIngest, !.before = NoSync,
        !.last = [scope |-> cur.scope, cred |-> cur.cred,
                  requests |-> cur.requests, data |-> cur.data,
                  wrote |-> cur.wrote, how |-> how, stage |-> stage,
                  key |-> IF how = "returned" THEN cur.scope ELSE <<Null, Null>>,
                  synced |-> /\ stage \in {"upload", "return"}
                             /\ \A i \in 1..Len(cur.todo) : cur.todo[i] \in crests]]

\* The caller ingests one pair, again and again.
IgCall(k, cred) ==
    /\ ingester.pc = "idle"
    /\ ingester.calls < MaxIngests
    /\ ingester.calls > 0 => k = ingester.last.scope
    /\ ingester' = [ingester EXCEPT !.pc = "fetch", !.calls = @ + 1,
                       !.cur = [NoIngest EXCEPT !.scope = k, !.cred = cred],
                       !.before = SyncOf(ingester.last),
                       !.last = [NoIngested EXCEPT !.scope = k]]
    /\ UNCHANGED <<lockDir, lock, procVars, dataVars, client, crests, now,
                   tracker, loader, cleaner, site>>

\* fetch_fixtures: the credential check, then the request for the first page.
IgFetch(ok, page, total) ==
    /\ ingester.pc = "fetch"
    /\ LET cur == ingester.cur IN
       IF ~cur.cred
       THEN ingester' = IngestEnds(cur, "raised", "fetch")
       ELSE LET asked == [cur EXCEPT !.requests = <<1>>] IN
            IF ~ok
            THEN ingester' = IngestEnds(asked, "raised", "fetch")
            ELSE LET more == FollowsPages(page, total) /\ 2 <= LastPage(total) IN
                 ingester' = [ingester EXCEPT
                    !.cur = [asked EXCEPT !.got = <<page>>, !.total = total,
                                !.acc = IF more THEN page ELSE <<>>,
                                !.data = IF more THEN <<>> ELSE page],
                    !.pc = IF more THEN "page" ELSE "bucket"]
    /\ UNCHANGED <<lockDir, lock, procVars, dataVars, client, crests, now,
                   tracker, loader, cleaner, site>>

\* fetch_fixtures: the request for the next page, all_response.extend(...).
IgPage(ok, page) ==
    /\ ingester.pc = "page"
    /\ LET cur == ingester.cur
           n == Len(cur.got) + 1
           asked == [cur EXCEPT !.requests = Append(@, n)]
       IN IF ~ok
          THEN ingester' = IngestEnds(asked, "raised", "fetch")
          ELSE LET more == n < LastPage(cur.total) IN
               ingester' = [ingester EXCEPT
                  !.cur = [asked EXCEPT !.got = Append(@, page),
                              !.acc = IF more THEN cur.acc \o page ELSE <<>>,
                              !.data = IF more THEN <<>> ELSE cur.acc \o page],
                  !.pc = IF more THEN "page" ELSE "bucket"]
    /\ UNCHANGED <<lockDir, lock, procVars, dataVars, client, crests, now,
                   tracker, loader, cleaner, site>>

\* run_ingest: get_client() and ensure_bucket(client, resolved_bucket).
IgBucket(ok) ==
    /\ ingester.pc = "bucket"
    /\ ingester' = IF ok THEN [ingester EXCEPT !.pc = "collect"]
                   ELSE IngestEnds(ingester.cur, "raised", "bucket")
    /\ UNCHANGED <<lockDir, lock, procVars, dataVars, client, crests, now,
                   tracker, loader, cleaner, site>>

\* sync_crests_from_response up to teams_to_fetch: it returns at once on an
\* empty response array or when no team has an id.
IgCollect ==
    /\ ingester.pc = "collect"
    /\ LET cur == ingester.cur
           c == Collect(cur.data, 1, <<>>)
       IN IF c.raised
          THEN ingester' = IngestEnds(cur, "raised", "sync")
          ELSE ingester' = [ingester EXCEPT
                  !.cur = [cur EXCEPT !.todo = c.teams],
                  !.pc = IF c.teams = <<>> THEN "upload" ELSE "sync_bucket"]
    /\ UNCHANGED <<lockDir, lock, procVars, dataVars, client, crests, now,
                   tracker, loader, cleaner, site>>

\* sync_crests_from_response: ensure_bucket(c, resolved_bucket).
IgSyncBucket(ok) ==
    /\ ingester.pc = "sync_bucket"
    /\ ingester' = IF ok THEN [ingester EXCEPT !.pc = "crest"]
                   ELSE IngestEnds(ingester.cur, "raised", "sync")
    /\ UNCHANGED <<lockDir, lock, procVars, dataVars, client, crests, now,
                   tracker, loader, cleaner, site>>

\* sync_crests_from_response: _ensure_crest for the next team.
IgCrest(ok, outcome) ==
    /\ ingester.pc = "crest"
    /\ LET cur == ingester.cur
           t == cur.todo[Len(cur.handled) + 1]
           e == EnsureCrest(crests, t, ok, outcome)
       IN /\ crests' = IF e.wrote THEN crests \cup {t} ELSE crests
          /\ ingester' = [ingester EXCEPT
                !.cur = [cur EXCEPT !.handled = Append(@, e)],
                !.pc = IF Len(cur.handled) + 1 < Len(cur.todo)
                       THEN "crest" ELSE "upload"]
    /\ UNCHANGED <<lockDir, lock, procVars, dataVars, client, now,
                   tracker, loader, cleaner, site>>

\* upload_raw(client, resolved_bucket, data, league, season): put_object.
IgUpload(ok) ==
    /\ ingester.pc = "upload"
    /\ IF ok
       THEN /\ raw' = [raw EXCEPT ![ingester.cur.scope] = RawOf(ingester.cur.data)]
            /\ ingester' = [ingester EXCEPT !.pc = "return", !.cur.wrote = TRUE]
       ELSE /\ raw' = raw
            /\ ingester' = IngestEnds(ingester.cur, "raised", "upload")
    /\ UNCHANGED <<lockDir, lock, procVars, leagues, seasons, processed, rows,
                   runs, cache, client, crests, now, tracker, loader, cleaner, site>>

\* upload_raw returns the key and run_ingest returns it.
IgReturn ==
    /\ ingester.pc = "return"
    /\ ingester' = IngestEnds(ingester.cur, "returned", "return")
    /\ UNCHANGED <<lockDir, lock, procVars, dataVars, client, crests, now,
                   tracker, loader, cleaner, site>>

\* ------------------------------------------------ SpecClean: transform.clean
\* A caller of clean(df) that cleans a table and then cleans the result.
\* A DataFrame is the sequence of its rows, each with its index label.
\* The input tables: up to MaxRows rows, the fixture id null or not, one
\* other column that makes rows with the same fixture id differ.
CleanRows ==
    {Row(f, l, DEFAULT_SEASON) : f \in {Null, 1, 2}, l \in {Null, DEFAULT_LEAGUE}}

RECURSIVE SeqsUpTo(_, _)
SeqsUpTo(S, n) ==
    IF n = 0 THEN {<<>>}
    ELSE LET shorter == SeqsUpTo(S, n - 1)
         IN shorter \cup {Append(t, r) : t \in shorter, r \in S}

CleanTables == SeqsUpTo(CleanRows, MaxRows)

\* pd.DataFrame(records): a RangeIndex, labels 0 .. n-1.
DataFrame(records) ==
    [i \in 1..Len(records) |-> [index |-> i - 1, row |-> records[i]]]

\* DataFrame.empty
DfEmpty(f) == Len(f) = 0

\* Boolean-mask selection: the entries at the positions in keep, labels and
\* order as in f.
RECURSIVE Take(_, _, _)
Take(f, keep, i) ==
    IF i > Len(f) THEN <<>>
    ELSE (IF i \in keep THEN <<f[i]>> ELSE <<>>) \o Take(f, keep, i + 1)

Mask(f, keep) == Take(f, keep, 1)

\* df.drop_duplicates(): keep="first" over all columns (nulls compare equal).
DropDuplicatesKeepLast(f) ==
    Mask(f, {i \in 1..Len(f) : ~\E j \in (i + 1)..Len(f) : f[j].row = f[i].row})

DropDuplicates(f) ==
    Mask(f, {i \in 1..Len(f) : ~\E j \in 1..(i - 1) : f[j].row = f[i].row})

\* out[out["fixture_id"].notna()]
NotNaFixtureId(f) == Mask(f, {i \in 1..Len(f) : f[i].row.fixture_id # Null})

\* out.reset_index(drop=True): labels 0 .. n-1 again, the old labels dropped.
\* Without drop=True the old labels become a column named index (level_0
\* when there is an index column already).
ResetIndexKeepsColumn(f) ==
    [i \in 1..Len(f) |->
        [index |-> i - 1,
         row |-> IF "index" \in DOMAIN f[i].row
                 THEN ("level_0" :> f[i].index) @@ f[i].row
                 ELSE ("index" :> f[i].index) @@ f[i].row]]

ResetIndex(f) == [i \in 1..Len(f) |-> [index |-> i - 1, row |-> f[i].row]]

\* clean(df)
Clean(f) ==
    IF DfEmpty(f) THEN f
    ELSE ResetIndex(NotNaFixtureId(DropDuplicates(f)))

CleanerInit(t) ==
    [pc |-> "new", input |-> DataFrame(t), once |-> <<>>, twice |-> <<>>]

\* out = clean(df)
ClClean ==
    /\ cleaner.pc = "new"
    /\ cleaner' = [cleaner EXCEPT !.pc = "once", !.once = Clean(cleaner.input)]
    /\ UNCHANGED <<lockDir, lock, procVars, dataVars, client, crests, now,
                   tracker, loader, ingester, site>>

\* clean(out)
ClCleanAgain ==
    /\ cleaner.pc = "once"
    /\ cleaner' = [cleaner EXCEPT !.pc = "twice", !.twice = Clean(cleaner.once)]
    /\ UNCHANGED <<lockDir, lock, procVars, dataVars, client, crests, now,
                   tracker, loader, ingester, site>>

\* ----------------------------------------------- SpecRead: dashboard reads
\* A dashboard request reads the fixtures of one scope with
\* views._load_fixtures_from_db while the loader of SpecLoad is at work; it
\* takes no lock.
\* Fixture.objects.filter(league_id=..., league_season=...): the queryset.
FixturesOfAnyScope(store, l, y) == store

FixturesOf(store, l, y) == RowsOfScope(store, l, y)

\* What _load_fixtures_from_db returned: (None, error) or the rows listed.
NoRead == [found |-> FALSE, rows |-> EmptyBag]

\* site.during: the load of the scope was between its delete and its insert
\* when the query that gave the answer ran.
ReaderInit ==
    [pc |-> "idle", scope |-> <<Null, Null>>, during |-> FALSE, answer |-> NoRead]

LoadInProgress(k) == loader.pc = "insert" /\ loader.call.scope = k

\* `if not qs.exists(): return None, "No fixtures ..."`
RdExists(k) ==
    /\ site.pc = "idle"
    /\ IF FixturesOf(rows, k[1], k[2]) = EmptyBag
       THEN site' = [site EXCEPT !.pc = "done", !.scope = k,
                                 !.during = LoadInProgress(k)]
       ELSE site' = [site EXCEPT !.pc = "list", !.scope = k]
    /\ UNCHANGED <<lockDir, lock, procVars, dataVars, client, crests, now,
                   tracker, loader, ingester, cleaner>>

\* rows = list(qs.values(...)); return pd.DataFrame(rows), None
RdList ==
    /\ site.pc = "list"
    /\ site' = [site EXCEPT
          !.pc = "done", !.during = LoadInProgress(site.scope),
          !.answer = [found |-> TRUE,
                      rows |-> FixturesOf(rows, site.scope[1], site.scope[2])]]
    /\ UNCHANGED <<lockDir, lock, procVars, dataVars, client, crests, now,
                   tracker, loader, ingester, cleaner>>

\* ------------------------------------------- SpecOps: the site's operations
\* Every entrypoint next to the people who run them: the admin's rebuild
\* trigger (admin_views.pipeline_rebuild), the diagnostic is_stale_lock, the
\* ingest_football commands, and the operator who removes the marker by hand.
INGEST == "ingest_football"  \* manage.py ingest_football (data and home apps)

\* is_stale_lock(path, max_age): False without a marker or when stat fails,
\* else whether the marker's age exceeds max_age.
IsStaleLock(l, statOk, age, max_age) ==
    IF ~PathExists(l) THEN FALSE
    ELSE IF ~statOk THEN FALSE
    ELSE age > max_age

\* The marker after is_stale_lock answered: exists() and stat() only read.
StaleLockBroken(l, stale) == IF stale THEN ReleaseLock(l) ELSE l

StaleLockLeaves(l, stale) == l

\* pipeline_rebuild, `except Exception as e`: what call_command raised is
\* caught when it is an Exception; the SystemExit of a lock conflict is not.
ViewCatches(res) == res = "exception"

\* How pipeline_rebuild ends once call_command is over: messages.success or
\* messages.error and the redirect, or the SystemExit leaves the view.
ViewAnswer(res) ==
    IF res = "ok" THEN "completed"
    ELSE IF ViewCatches(res) THEN "failed"
    ELSE "SystemExit"

\* site.caller is the invocation pipeline_rebuild runs (0: no request),
\* site.answer how the view ended, site.stale the last answer of
\* is_stale_lock.
SiteInit(v) == [pc |-> "admin", caller |-> v, answer |-> "none", stale |-> "none"]

\* pipeline_rebuild: `if lock_file.exists():` the warning and the redirect,
\* else call_command("rebuild_football_from_minio").
VwCheck(p) ==
    /\ pc[p] = "view_check"
    /\ IF PathExists(lock)
       THEN /\ site' = [site EXCEPT !.answer = "already_running"]
            /\ pc' = Set(pc, p, "off")
       ELSE /\ site' = site
            /\ pc' = Set(pc, p, "start")
    /\ UNCHANGED <<lockDir, lock, kind, skip, idx, df, exc, held, result, tag,
                   runId, dataVars, client, crests, now, tracker, loader,
                   ingester, cleaner>>

\* call_command is over: the view's try / except and its response.
VwAnswer(p) ==
    /\ site.caller = p /\ site.answer = "none" /\ pc[p] = "done"
    /\ site' = [site EXCEPT !.answer = ViewAnswer(result[p])]
    /\ UNCHANGED <<lockDir, lock, procVars, dataVars, client, crests, now,
                   tracker, loader, ingester, cleaner>>

\* ingest_football: run_ingest(league, season) in a try; an Exception is
\* written to stdout and becomes SystemExit(1).  No lock is taken.
IcIngest(p, resp, ok) ==
    /\ pc[p] = "ingest_cmd"
    /\ IF ok
       THEN /\ raw' = [raw EXCEPT ![<<DEFAULT_LEAGUE, DEFAULT_SEASON>>] = resp]
            /\ crests' = SyncCrests(crests, resp)
       ELSE /\ raw' = raw
            /\ crests' \in {crests, SyncCrests(crests, resp)}
    /\ result' = Set(result, p, IF ok THEN "ok" ELSE "exception")
    /\ pc' = Set(pc, p, "done")
    /\ UNCHANGED <<lockDir, lock, kind, skip, idx, df, exc, held, tag, runId,
                   leagues, seasons, processed, rows, runs, cache, client, now,
                   tracker, loader, unitVars>>

\* An admin page asks is_stale_lock about the marker, once, at any moment.
AdIsStale(statOk, age, max_age) ==
    /\ site.pc = "admin" /\ site.stale = "none"
    /\ LET stale == IsStaleLock(lock, statOk, age, max_age) IN
       /\ site' = [site EXCEPT !.stale = IF stale THEN "yes" ELSE "no"]
       /\ lock' = StaleLockLeaves(lock, stale)
    /\ UNCHANGED <<lockDir, procVars, dataVars, client, crests, now, tracker,
                   loader, ingester, cleaner>>

\* The operator deletes the marker a holder that is gone left behind
\* ("Remove ... to force").
OperatorRemoves ==
    /\ lock = Other
    /\ lock' = 0
    /\ UNCHANGED <<lockDir, procVars, dataVars, client, libVars>>

\* ------------------------------------------------------------ specifications
\* Steps of a management command.
CmdStep(p, oks, resps) ==
    \/ StartMkdir(p)
    \/ AcquireCheck(p)
    \/ AcquireTouch(p)
    \/ Enumerate(p)
    \/ \E r \in resps, ok \in oks : Ingest(p, r, ok)
    \/ TrackCreate(p)
    \/ \E ok \in oks : Transform(p, ok)
    \/ \E ok \in oks : LoadDelete(p, ok)
    \/ \E ok \in oks : LoadInsert(p, ok)
    \/ \E ok \in oks : Publish(p, ok)
    \/ TrackFinish(p)
    \/ TrackFail(p)
    \/ \E ok \in oks : ReadProcessed(p, ok)
    \/ \E ok \in oks : RawExists(p, ok)
    \/ \E ok \in oks : CacheClear(p, ok)
    \/ Release(p)

\* Steps only run_pipeline has.
StandaloneStep(p, oks) ==
    \/ SaCheck(p)
    \/ SaTouch(p)
    \/ \E ok \in oks : LocalBuild(p, ok)

\* The clock, the tracker callers and the loader caller where they play no
\* part: time does not pass and nobody calls the libraries directly.
TrackerOff == [pc |-> "off"]

LoaderOff == [pc |-> "off"]

IngesterOff == [pc |-> "off"]

CleanerOff == [pc |-> "off"]

SiteOff == [pc |-> "off"]

UnitsOff == ingester = IngesterOff /\ cleaner = CleanerOff /\ site = SiteOff

LibOff == now = 0 /\ tracker = TrackerOff /\ loader = LoaderOff /\ UnitsOff

SeasonLists == {<<>>, <<DEFAULT_SEASON>>}

LeagueLists == {[i \in 1..n |-> DEFAULT_LEAGUE + i - 1] : n \in 0..MaxLeagues}

Kinds == {FULL, REBUILD, STANDALONE}

KindRank(k) == IF k = FULL THEN 1 ELSE IF k = REBUILD THEN 2 ELSE 3

\* Invocations in `active` are about to start; the others never run.
ProcInit(active, kinds) ==
    /\ kind \in [Procs -> Kinds]
    /\ \A p \in Procs : kind[p] \in (IF p \in active THEN kinds ELSE {FULL})
    /\ skip \in [Procs -> BOOLEAN]
    /\ \A p \in Procs : skip[p] => kind[p] = STANDALONE
    /\ pc = [p \in Procs |-> IF p \in active THEN "start" ELSE "off"]
    /\ idx = [p \in Procs |-> 0]
    /\ df = [p \in Procs |-> NoDF]
    /\ exc = [p \in Procs |-> ""]
    /\ held = [p \in Procs |-> FALSE]
    /\ result = [p \in Procs |-> "running"]
    /\ tag = [p \in Procs |-> ""]
    /\ runId = [p \in Procs |-> 0]

\* Concurrent invocations: the seeded configuration (one league, one season),
\* empty object store, rows of an earlier load.  The invocations are
\* interchangeable, so their kinds are listed in one fixed order.
InitConc(kinds) ==
    /\ lockDir \in BOOLEAN
    /\ lock = 0
    /\ ProcInit(Procs, kinds)
    /\ \A p, q \in Procs : p < q => KindRank(kind[p]) <= KindRank(kind[q])
    /\ leagues = <<DEFAULT_LEAGUE>>
    /\ seasons = <<DEFAULT_SEASON>>
    /\ raw = [k \in AllPairs |-> NoObject]
    /\ processed = [k \in AllPairs |-> NoObject]
    /\ rows = OldRows
    /\ runs = <<>>
    /\ cache = TRUE
    /\ crests = {}
    /\ client = ClientOff
    /\ LibOff

InitCmd == InitConc({FULL, REBUILD})

NextCmd == \E p \in Procs : CmdStep(p, BOOLEAN, Responses)

SpecCmd == InitCmd /\ [][NextCmd]_vars

Init == InitConc(Kinds)

Next ==
    \E p \in Procs : CmdStep(p, BOOLEAN, Responses) \/ StandaloneStep(p, BOOLEAN)

Spec == Init /\ [][Next]_vars

\* One invocation (number 1) of any entrypoint, over every configuration up
\* to MaxLeagues leagues and every content of the object store for the
\* configured pairs; the marker is absent, or was left by another holder.
ConfiguredPairs == {Pairs[i] : i \in 1..Len(Pairs)}

InitRun ==
    /\ lockDir = FALSE
    /\ lock \in {0, Other}
    /\ ProcInit({1}, Kinds)
    /\ leagues \in LeagueLists
    /\ seasons \in SeasonLists
    /\ raw \in [AllPairs -> {NoObject} \cup Responses]
    /\ processed \in [AllPairs -> {NoObject, "tE", "tA"}]
    /\ \A k \in AllPairs \ (ConfiguredPairs \cup {<<DEFAULT_LEAGUE, DEFAULT_SEASON>>}) :
          raw[k] = NoObject /\ processed[k] = NoObject
    /\ rows = OldRows
    /\ runs = <<>>
    /\ cache = TRUE
    /\ crests = {}
    /\ client = ClientOff
    /\ LibOff

NextRun == CmdStep(1, BOOLEAN, Responses) \/ StandaloneStep(1, BOOLEAN)

SpecRun == InitRun /\ [][NextRun]_vars

FairRun == SpecRun /\ WF_vars(NextRun)

\* The lock library on its own.
InitLock ==
    /\ lockDir \in BOOLEAN
    /\ lock = 0
    /\ ProcInit({}, Kinds)
    /\ leagues = <<>>
    /\ seasons = <<>>
    /\ raw = [k \in AllPairs |-> NoObject]
    /\ processed = [k \in AllPairs |-> NoObject]
    /\ rows = EmptyBag
    /\ runs = <<>>
    /\ cache = FALSE
    /\ crests = {}
    /\ client = ClientInit
    /\ LibOff

NextLock ==
    \/ \E c \in Procs, f \in BOOLEAN : LkAcquire(c, f)
    \/ \E c \in Procs : LkRelease(c)
    \/ \E c \in Procs, r \in BOOLEAN : LkScopedEnter(c, r)
    \/ \E e \in {"touch", "unlink"} : LkWork(e)
    \/ LkScopedExit

SpecLock == InitLock /\ [][NextLock]_vars

\* The run tracker on its own.
InitTrack ==
    /\ lockDir = FALSE
    /\ lock = 0
    /\ ProcInit({}, Kinds)
    /\ leagues = <<>>
    /\ seasons = <<>>
    /\ raw = [k \in AllPairs |-> NoObject]
    /\ processed = [k \in AllPairs |-> NoObject]
    /\ rows = EmptyBag
    /\ runs = <<>>
    /\ cache = FALSE
    /\ crests = {}
    /\ client = ClientOff
    /\ now = 0
    /\ tracker = TrackerInit
    /\ loader = LoaderOff
    /\ UnitsOff

NextTrack ==
    \/ \E p \in Procs, k \in TrackScopes : TkCall(p, k)
    \/ \E p \in Procs : TkInsert(p)
    \/ \E p \in Procs, o \in WorkOutcomes : TkExecute(p, o)
    \/ Tick
    \/ \E l \in {Null, DEFAULT_LEAGUE}, y \in {Null, DEFAULT_SEASON} : TkQuery(l, y)

SpecTrack == InitTrack /\ [][NextTrack]_vars

\* The loader on its own, starting from a Fixture table that holds the rows
\* of an earlier load of every pair.
InitLoad ==
    /\ lockDir = FALSE
    /\ lock = 0
    /\ ProcInit({}, Kinds)
    /\ leagues = <<>>
    /\ seasons = <<>>
    /\ raw = [k \in AllPairs |-> NoObject]
    /\ processed = [k \in AllPairs |-> NoObject]
    /\ rows = OldRows
    /\ runs = <<>>
    /\ cache = FALSE
    /\ crests = {}
    /\ client = ClientOff
    /\ now = 0
    /\ tracker = TrackerOff
    /\ loader = LoaderInit
    /\ UnitsOff

NextLoad ==
    \/ \E t \in LoadTables, k \in AllPairs, ok \in BOOLEAN : LdDelete(t, k, ok)
    \/ \E ok \in BOOLEAN : LdInsert(ok)

SpecLoad == InitLoad /\ [][NextLoad]_vars

\* run_ingest on its own, on an empty object store.
InitIngest ==
    /\ lockDir = FALSE
    /\ lock = 0
    /\ ProcInit({}, Kinds)
    /\ leagues = <<>>
    /\ seasons = <<>>
    /\ raw = [k \in AllPairs |-> NoObject]
    /\ processed = [k \in AllPairs |-> NoObject]
    /\ rows = EmptyBag
    /\ runs = <<>>
    /\ cache = FALSE
    /\ crests = {}
    /\ client = ClientOff
    /\ now = 0
    /\ tracker = TrackerOff
    /\ loader = LoaderOff
    /\ ingester = IngesterInit
    /\ cleaner = CleanerOff
    /\ site = SiteOff

NextIngest ==
    \/ \E k \in AllPairs, cred \in BOOLEAN : IgCall(k, cred)
    \/ \E ok \in BOOLEAN, page \in FirstPages, total \in Totals :
          IgFetch(ok, page, total)
    \/ \E ok \in BOOLEAN, page \in MorePages : IgPage(ok, page)
    \/ \E ok \in BOOLEAN : IgBucket(ok)
    \/ IgCollect
    \/ \E ok \in BOOLEAN : IgSyncBucket(ok)
    \/ \E ok \in BOOLEAN, outcome \in CrestOutcomes : IgCrest(ok, outcome)
    \/ \E ok \in BOOLEAN : IgUpload(ok)
    \/ IgReturn

SpecIngest == InitIngest /\ [][NextIngest]_vars

\* clean on its own, over every input table.
InitClean ==
    /\ lockDir = FALSE
    /\ lock = 0
    /\ ProcInit({}, Kinds)
    /\ leagues = <<>>
    /\ seasons = <<>>
    /\ raw = [k \in AllPairs |-> NoObject]
    /\ processed = [k \in AllPairs |-> NoObject]
    /\ rows = EmptyBag
    /\ runs = <<>>
    /\ cache = FALSE
    /\ crests = {}
    /\ client = ClientOff
    /\ now = 0
    /\ tracker = TrackerOff
    /\ loader = LoaderOff
    /\ ingester = IngesterOff
    /\ cleaner \in {CleanerInit(t) : t \in CleanTables}
    /\ site = SiteOff

NextClean == ClClean \/ ClCleanAgain

SpecClean == InitClean /\ [][NextClean]_vars

\* The loader, making up to MaxReadLoads calls, and one dashboard read at any
\* moment.
InitRead ==
    /\ lockDir = FALSE
    /\ lock = 0
    /\ ProcInit({}, Kinds)
    /\ leagues = <<>>
    /\ seasons = <<>>
    /\ raw = [k \in AllPairs |-> NoObject]
    /\ processed = [k \in AllPairs |-> NoObject]
    /\ rows = OldRows
    /\ runs = <<>>
    /\ cache = FALSE
    /\ crests = {}
    /\ client = ClientOff
    /\ now = 0
    /\ tracker = TrackerOff
    /\ loader = LoaderInit
    /\ ingester = IngesterOff
    /\ cleaner = CleanerOff
    /\ site = ReaderInit

NextRead ==
    \/ \E t \in LoadTables, k \in AllPairs, ok \in BOOLEAN :
          loader.calls < MaxReadLoads /\ LdDelete(t, k, ok)
    \/ \E ok \in BOOLEAN : LdInsert(ok)
    \/ \E k \in AllPairs : RdExists(k)
    \/ RdList

SpecRead == InitRead /\ [][NextRead]_vars

\* All entrypoints side by side: the marker is absent or was left behind by
\* a holder that is gone; invocation 1 may be the one pipeline_rebuild runs.
\* The object store and the database answer every request; the API response
\* is what varies.
OpsKinds == Kinds \cup {INGEST}

FirstLabel(k, viaView) ==
    IF viaView THEN "view_check" ELSE IF k = INGEST THEN "ingest_cmd" ELSE "start"

InitOps ==
    /\ lockDir = TRUE
    /\ lock \in {0, Other}
    /\ kind \in [Procs -> OpsKinds]
    /\ skip \in [Procs -> BOOLEAN]
    /\ \A p \in Procs : skip[p] => kind[p] = STANDALONE
    /\ site \in {SiteInit(v) : v \in {0, 1}}
    /\ site.caller # 0 => kind[site.caller] = REBUILD
    /\ \A p, q \in Procs \ {site.caller} :
          p < q => KindRank(kind[p]) <= KindRank(kind[q])
    /\ pc = [p \in Procs |-> FirstLabel(kind[p], p = site.caller)]
    /\ idx = [p \in Procs |-> 0]
    /\ df = [p \in Procs |-> NoDF]
    /\ exc = [p \in Procs |-> ""]
    /\ held = [p \in Procs |-> FALSE]
    /\ result = [p \in Procs |-> "running"]
    /\ tag = [p \in Procs |-> ""]
    /\ runId = [p \in Procs |-> 0]
    /\ leagues = <<DEFAULT_LEAGUE>>
    /\ seasons = <<DEFAULT_SEASON>>
    /\ raw = [k \in AllPairs |-> NoObject]
    /\ processed = [k \in AllPairs |-> NoObject]
    /\ rows = OldRows
    /\ runs = <<>>
    /\ cache = TRUE
    /\ crests = {}
    /\ client = ClientOff
    /\ now = 0
    /\ tracker = TrackerOff
    /\ loader = LoaderOff
    /\ ingester = IngesterOff
    /\ cleaner = CleanerOff

NextOps ==
    \/ \E p \in Procs : CmdStep(p, {TRUE}, Responses) \/ StandaloneStep(p, {TRUE})
    \/ \E p \in Procs : VwCheck(p)
    \/ \E p \in Procs : VwAnswer(p)
    \/ \E p \in Procs, r \in Responses : IcIngest(p, r, TRUE)
    \/ \E statOk \in BOOLEAN, age \in 0..MaxClock, max_age \in 0..MaxClock :
          AdIsStale(statOk, age, max_age)
    \/ OperatorRemoves

SpecOps == InitOps /\ [][NextOps]_vars

\* ------------------------------------------------------------------ claims
Holders == {p \in Procs : held[p]}

BodyLabels ==
    {"enter", "ingest", "track_create", "transform", "local_build",
     "load_delete", "load_insert", "publish", "track_finish", "track_fail",
     "read_processed", "raw_exists", "cache_clear", "release"}

InBody(p) == pc[p] \in BodyLabels

\* Run records of scope k.
RunsOf(k) ==
    {i \in 1..Len(runs) : runs[i].league_id = k[1] /\ runs[i].season_year = k[2]}

\* C1: among concurrently started run_football_pipeline and
\* rebuild_football_from_minio invocations, under every interleaving of the
\* steps of acquire_lock, at most one invocation is between its successful
\* acquire_lock and its release at any time.
C1_OneHolderAmongCommands == Cardinality(Holders) <= 1

\* C1 witness: two commands both saw the marker absent; one created it and
\* holds the lock while the other is still about to try its exclusive create.
C1_Witness ==
    \E p, q \in Procs : p # q /\ held[p] /\ lock = p /\ pc[q] = "acq_touch"

\* C2 (as claimed): over all entrypoints sharing the lock file, run_pipeline
\* included, no two invocations execute their pipeline body at the same
\* time, so one's delete-then-insert never interleaves with another's.
C2_NoTwoBodiesOverlap ==
    \A p, q \in Procs : p # q => ~(InBody(p) /\ InBody(q))

C6_ConflictChangesNothing ==
    /\ [](\A p \in Procs : result[p] = "lock_conflict" =>
            /\ pc[p] = "done" /\ ExitStatus(result[p]) = 1
            /\ ~held[p] /\ idx[p] = 0 /\ runId[p] = 0 /\ df[p] = NoDF)
    /\ [][\A p \in Procs :
            (result[p] # "lock_conflict" /\ result'[p] = "lock_conflict") =>
                /\ PathExists(lock)
                /\ UNCHANGED <<lock, runs, raw, processed, rows, cache>>]_vars

\* C6 witness: a command lost the race for the exclusive create (it had seen
\* the marker absent) and ended while the winner holds the lock.
C6_Witness ==
    \E p, q \in Procs :
        /\ p # q /\ kind[p] # STANDALONE /\ result[p] = "lock_conflict"
        /\ held[q] /\ lock = q /\ pc[q] = "load_insert"

\* C7: in the full pipeline a failure of the tracked unit of a pair is
\* recorded and the loop goes on with the ingest of the next pair (or, after
\* the last pair, with the code after the loops); an invocation that no
\* escaping exception ended has a run record for every configured pair.
C7_TrackedFailureContinues ==
    /\ [][\A p \in Procs :
            (kind[p] = FULL /\ pc[p] = "track_fail" /\ pc'[p] # "track_fail") =>
                /\ runs'[runId[p]].status = FAILED
                /\ IF idx[p] < Len(Pairs)
                   THEN pc'[p] = "ingest" /\ idx'[p] = idx[p] + 1
                   ELSE pc'[p] = "cache_clear"]_vars
    /\ [](\A p \in Procs :
            (kind[p] = FULL /\ result[p] = "ok") =>
                \A i \in 1..Len(Pairs) : Cardinality(RunsOf(Pairs[i])) = 1)

\* C7 witness: the tracked unit of the first pair failed, the second pair
\* was still ingested and its tracked unit succeeded.
C7_Witness ==
    /\ kind[1] = FULL /\ pc[1] = "done" /\ Len(runs) = 2
    /\ runs[1].status = FAILED /\ runs[2].status = SUCCESS
    /\ raw[Pairs[2]] = "rawA"

\* C8 (as claimed): every configured pair is attempted once by a full
\* pipeline invocation that acquired the lock, also when a pair's ingest
\* raises.
C8_EveryPairAttempted ==
    \A p \in Procs :
        (kind[p] = FULL /\ pc[p] = "done" /\ result[p] # "lock_conflict") =>
            idx[p] = Len(Pairs)

\* C9 (as claimed): in the rebuild a failure while handling one pair does
\* not keep any later pair from being attempted.
C9_RebuildEveryPairAttempted ==
    \A p \in Procs :
        (kind[p] = REBUILD /\ pc[p] = "done" /\ result[p] # "lock_conflict") =>
            idx[p] = Len(Pairs)

\* C10 (as claimed): a failure of a stage after ingest (transform, load,
\* publish) in either command leaves exactly one FAILED run record for that
\* pair, carrying the exception message.
C10_StageFailureRecorded ==
    \A p \in Procs :
        (kind[p] \in {FULL, REBUILD} /\ exc[p] \notin {"", "ingest failed"}
            /\ pc[p] \in {"release", "done"}) =>
            Cardinality({i \in RunsOf(Scope(p)) :
                runs[i].status = FAILED /\ runs[i].error_summary = exc[p]}) = 1

\* Records of calls that are inside execute().
InExecute == {tracker.id[p] : p \in {q \in Procs : tracker.pc[q] = "execute"}}

\* C11: a run record is created RUNNING before its callable starts and is
\* RUNNING while the callable executes; every change of the records is the
\* creation of a RUNNING record or the single change RUNNING -> SUCCESS /
\* FAILED of the record of a callable that just ended, so a finished record is
\* never modified and no record is deleted; once the callable has returned or
\* raised an exception the record is SUCCESS or FAILED; no other status
\* occurs.
C11_RunLifecycle ==
    /\ [](\A i \in 1..Len(runs) : runs[i].status \in {RUNNING, SUCCESS, FAILED})
    /\ [](\A i \in InExecute : i \in 1..Len(runs) /\ runs[i].status = RUNNING)
    /\ [](tracker.last.ended \in {"returned", "raised"} =>
            runs[tracker.last.id].status \in {SUCCESS, FAILED})
    /\ [][/\ Len(runs') >= Len(runs)
          /\ \A i \in (Len(runs) + 1)..Len(runs') : runs'[i].status = RUNNING
          /\ \A i \in 1..Len(runs) :
                \/ runs'[i] = runs[i]
                \/ /\ i \in InExecute
                   /\ runs[i].status = RUNNING
                   /\ runs'[i].status \in {SUCCESS, FAILED}
                   /\ runs'[i].league_id = runs[i].league_id
                   /\ runs'[i].season_year = runs[i].season_year
                   /\ runs'[i].source = runs[i].source
                   /\ runs'[i].started_at = runs[i].started_at]_vars

\* C11 witness: two tracked runs have ended, one SUCCESS and one FAILED, and
\* time has passed since.
C11_Witness ==
    /\ Len(runs) = 2 /\ \A p \in Procs : tracker.pc[p] = "idle"
    /\ {runs[1].status, runs[2].status} = {SUCCESS, FAILED}
    /\ now > runs[1].finished_at /\ now > runs[2].finished_at

\* C12: when the callable raises an exception, the record is FAILED with
\* str(exception) as its error summary and a finish timestamp, and the same
\* exception reaches the caller.
C12_FailureRecordedAndReraised ==
    tracker.last.ended = "raised" =>
        /\ runs[tracker.last.id].status = FAILED
        /\ runs[tracker.last.id].error_summary = WorkError
        /\ runs[tracker.last.id].finished_at # NoTime
        /\ tracker.last.raised = WorkError

\* C12 witness: a callable raised while another tracked call was in progress.
C12_Witness ==
    /\ tracker.last.ended = "raised"
    /\ \E p \in Procs : tracker.pc[p] = "execute"

\* C13: when the callable returns, the call returns its record, which is
\* SUCCESS with a finish timestamp not earlier than the start timestamp, an
\* empty error summary, and the scope and source of the call.
C13_SuccessRecord ==
    tracker.last.ended = "returned" =>
        /\ tracker.last.ret = tracker.last.id
        /\ LET r == runs[tracker.last.ret] IN
            /\ r.status = SUCCESS
            /\ r.finished_at # NoTime /\ r.finished_at >= r.started_at
            /\ r.error_summary = ""
            /\ <<r.league_id, r.season_year>> = tracker.last.scope
            /\ r.source = tracker.last.source

\* C13 witness: a call returned after time passed during its callable.
C13_Witness ==
    /\ tracker.last.ended = "returned"
    /\ runs[tracker.last.ret].finished_at > runs[tracker.last.ret].started_at

\* SUCCESS records a query with filters l, y is about (None matches all).
Matching(l, y) ==
    {i \in 1..Len(runs) :
        /\ runs[i].status = SUCCESS
        /\ l # Null => runs[i].league_id = l
        /\ y # Null => runs[i].season_year = y}

\* C14: latest_successful_run(league, season) returns None exactly when no
\* SUCCESS record matches the non-null filters, and else the matching SUCCESS
\* record with the greatest (start timestamp, id).
C14_LatestSuccessful ==
    tracker.answer # NoAnswer =>
        LET m == Matching(tracker.answer.league, tracker.answer.season)
            a == tracker.answer.id
        IN IF m = {} THEN a = Null
           ELSE /\ a \in m
                /\ \A j \in m :
                      \/ runs[j].started_at < runs[a].started_at
                      \/ runs[j].started_at = runs[a].started_at /\ j <= a

\* C14 witness: the record returned for a league filter is not the one
\* created last: a matching SUCCESS record with a greater id started earlier.
C14_Witness ==
    /\ tracker.answer # NoAnswer /\ tracker.answer.league # Null
    /\ tracker.answer.id \in 1..Len(runs)
    /\ \E j \in Matching(tracker.answer.league, tracker.answer.season) :
          j > tracker.answer.id

\* The rows of table t as rows of scope <<l, y>>.
AsRowsOf(t, l, y) ==
    BulkCreate(EmptyBag, [i \in 1..Len(t) |-> Row(t[i].fixture_id, l, y)])

\* C15 (as claimed): after load(A, S) and then load(B, S), the rows of S are
\* exactly B's rows, and the rows of every other scope are what they were
\* before both loads.
C15_LoadReplaces ==
    (/\ loader.pc = "idle"
     /\ loader.prev.ended = "returned" /\ loader.last.ended = "returned"
     /\ loader.prev.scope = loader.last.scope) =>
        LET l == loader.last.scope[1]
            y == loader.last.scope[2]
        IN /\ RowsOfScope(rows, l, y) = AsRowsOf(loader.last.table, l, y)
           /\ \A k \in AllPairs \ {loader.last.scope} :
                 RowsOfScope(rows, k[1], k[2])
                     = RowsOfScope(loader.prev.before, k[1], k[2])

\* C16: load_fixtures_dataframe returns the number of rows it inserted,
\* which is the number of entries of the table; for the empty table it
\* returns 0 and the rows of the scope are deleted all the same.
C16_LoadReturnsCount ==
    (loader.pc = "idle" /\ loader.last.ended = "returned") =>
        LET l == loader.last.scope[1]
            y == loader.last.scope[2]
        IN /\ loader.last.ret = Len(loader.last.table)
           /\ loader.last.ret = BagCardinality(rows)
                 - BagCardinality(DeleteScope(loader.last.before, l, y))
           /\ loader.last.table = <<>> =>
                 (loader.last.ret = 0 /\ RowsOfScope(rows, l, y) = EmptyBag)

\* C16 witness: a table of two identical rows was loaded (2 returned), then
\* the empty table for the same scope (0 returned, the two rows deleted).
C16_Witness ==
    /\ loader.pc = "idle"
    /\ loader.prev.ended = "returned" /\ loader.prev.ret = 2
    /\ loader.last.ended = "returned" /\ loader.last.table = <<>>
    /\ loader.last.scope = loader.prev.scope
    /\ BagCardinality(RowsOfScope(loader.last.before, loader.last.scope[1],
                                   loader.last.scope[2])) = 2

\* The rows of scope k after DataFrame t was loaded for it.
Loaded(t, k) == BulkCreate(EmptyBag, Records(Frame(t, k), k[1], k[2]))

ProcessedPath == {"track_create", "load_delete", "load_insert", "track_finish",
                  "track_fail"}

RawPath == {"track_create", "load_delete", "load_insert", "publish",
            "track_finish", "track_fail"}

\* C17: in a rebuild, a pair whose processed artifact is read as a non-empty
\* table (a raw artifact existing or not) is loaded from that table in a
\* tracked unit with the processed source tag; until the pair is finished
\* the invocation is never at the raw check, the transform or the publish,
\* it writes neither artifact, and it then goes on to the next pair.
C17_ProcessedPreferred ==
    /\ [](\A p \in Procs : (kind[p] = REBUILD /\ tag[p] = SRC_PROCESSED) =>
            /\ pc[p] \in ProcessedPath
            /\ UseProcessed(df[p]) /\ df[p] = processed[Scope(p)])
    /\ [][\A p \in Procs : kind[p] = REBUILD =>
            /\ (pc[p] = "read_processed" /\ UseProcessed(df'[p])) =>
                  (pc'[p] = "track_create" /\ tag'[p] = SRC_PROCESSED)
            /\ tag[p] = SRC_PROCESSED =>
                  /\ UNCHANGED <<raw, processed>>
                  /\ \/ tag'[p] = SRC_PROCESSED /\ idx'[p] = idx[p]
                     \/ LET a == AfterPair(REBUILD, idx[p], Len(Pairs)) IN
                          pc'[p] = a.pc /\ idx'[p] = a.idx
            /\ (tag[p] = SRC_PROCESSED /\ pc[p] = "track_finish") =>
                  /\ runs'[runId[p]].status = SUCCESS
                  /\ runs'[runId[p]].source = SRC_PROCESSED
                  /\ RowsOfScope(rows, Scope(p)[1], Scope(p)[2])
                        = Loaded(processed[Scope(p)], Scope(p))]_vars

\* C17 witness: a rebuild ended; for a pair with a non-empty processed
\* artifact and a raw artifact that transforms to something else, the rows
\* are those of the processed artifact and the run is recorded SUCCESS.
C17_Witness ==
    /\ kind[1] = REBUILD /\ pc[1] = "done" /\ Len(runs) = 1
    /\ runs[1].status = SUCCESS /\ runs[1].source = SRC_PROCESSED
    /\ LET k == <<runs[1].league_id, runs[1].season_year>> IN
        /\ raw[k] = "rawE" /\ processed[k] = "tA"
        /\ RowsOfScope(rows, k[1], k[2]) = Loaded("tA", k)

\* C18: in a rebuild, a processed artifact that is absent, unreadable or
\* empty raises nothing and sends the pair to the raw check; the transform
\* runs only on an existing raw artifact; its result is loaded in a tracked
\* unit with the raw source tag, and published only after the load
\* returned; a pair recorded SUCCESS this way has the transform's output as
\* its rows and as its processed artifact.
C18_RawFallback ==
    /\ [](\A p \in Procs : kind[p] = REBUILD =>
            /\ pc[p] = "transform" =>
                  (~UseProcessed(df[p]) /\ raw[Scope(p)] # NoObject /\ runId[p] = 0)
            /\ tag[p] = SRC_RAW =>
                  (pc[p] \in RawPath /\ df[p] = FlattenClean(raw[Scope(p)]))
            /\ pc[p] = "publish" =>
                  /\ tag[p] = SRC_RAW
                  /\ RowsOfScope(rows, Scope(p)[1], Scope(p)[2])
                        = Loaded(df[p], Scope(p)))
    /\ [][\A p \in Procs : kind[p] = REBUILD =>
            /\ pc[p] = "read_processed" =>
                  /\ exc'[p] = ""
                  /\ ~UseProcessed(df'[p]) => pc'[p] \in {"read_processed", "raw_exists"}
            /\ (pc[p] = "transform" /\ exc'[p] = "") =>
                  pc'[p] \in {"transform", "track_create"}
            /\ processed' # processed =>
                  /\ pc[p] = "publish" /\ pc'[p] = "track_finish"
                  /\ processed'[Scope(p)] = FlattenClean(raw[Scope(p)])
            /\ (tag[p] = SRC_RAW /\ pc[p] = "track_finish") =>
                  /\ runs'[runId[p]].status = SUCCESS
                  /\ processed[Scope(p)] = df[p]
                  /\ RowsOfScope(rows, Scope(p)[1], Scope(p)[2])
                        = Loaded(df[p], Scope(p))]_vars

\* C18 witness: a rebuild ended; a pair was rebuilt from its raw artifact:
\* recorded SUCCESS with the raw source tag, rows and processed artifact
\* equal to the transform's output.
C18_Witness ==
    /\ kind[1] = REBUILD /\ pc[1] = "done" /\ Len(runs) = 1
    /\ runs[1].status = SUCCESS /\ runs[1].source = SRC_RAW
    /\ LET k == <<runs[1].league_id, runs[1].season_year>> IN
        /\ raw[k] = "rawA" /\ processed[k] = "tA"
        /\ RowsOfScope(rows, k[1], k[2]) = Loaded("tA", k)

\* C19: in a rebuild, a pair with neither a processed nor a raw artifact
\* never gets a run record, its rows stay what they were, and the step that
\* finds the raw artifact missing writes nothing, raises nothing and goes on
\* to the next pair (or to the end of the loops).
C19_NothingToRebuild ==
    /\ [](\A p \in Procs : \A i \in 1..Len(Pairs) :
            (/\ kind[p] = REBUILD
             /\ raw[Pairs[i]] = NoObject /\ processed[Pairs[i]] = NoObject) =>
                /\ RunsOf(Pairs[i]) = {}
                /\ RowsOfScope(rows, Pairs[i][1], Pairs[i][2])
                      = RowsOfScope(OldRows, Pairs[i][1], Pairs[i][2]))
    /\ [][\A p \in Procs :
            (/\ kind[p] = REBUILD /\ pc[p] = "raw_exists"
             /\ raw[Scope(p)] = NoObject) =>
                /\ UNCHANGED <<rows, raw, processed, runs, crests, exc>>
                /\ LET a == AfterPair(REBUILD, idx[p], Len(Pairs)) IN
                     pc'[p] = a.pc /\ idx'[p] = a.idx]_vars

\* C19 witness: a rebuild over two pairs ended normally; the first pair has
\* neither artifact and no run record, the second was rebuilt.
C19_Witness ==
    /\ kind[1] = REBUILD /\ pc[1] = "done" /\ result[1] = "ok"
    /\ Len(Pairs) = 2
    /\ raw[Pairs[1]] = NoObject /\ processed[Pairs[1]] = NoObject
    /\ RunsOf(Pairs[1]) = {}
    /\ \E i \in RunsOf(Pairs[2]) : runs[i].status = SUCCESS

\* C20: a rebuild never runs the ingest stage: no step of it writes a raw
\* artifact or a crest; besides rows, run records and the lock marker it
\* writes only processed artifacts, and those only in a tracked unit with
\* the raw source tag.
C20_RebuildNeverIngests ==
    /\ [](\A p \in Procs : kind[p] = REBUILD => pc[p] # "ingest")
    /\ [][\A p \in Procs : (kind[p] = REBUILD /\ pc'[p] # pc[p]) =>
            /\ UNCHANGED <<raw, crests, cache, leagues, seasons>>
            /\ processed' # processed => tag[p] = SRC_RAW]_vars

\* C20 witness: a rebuild over two pairs ended, one pair loaded from its
\* processed artifact and one rebuilt from raw; the raw artifacts are the
\* ones it found and no crest was stored.
C20_Witness ==
    /\ kind[1] = REBUILD /\ pc[1] = "done" /\ Len(runs) = 2
    /\ {runs[1].source, runs[2].source} = {SRC_PROCESSED, SRC_RAW}
    /\ runs[1].status = SUCCESS /\ runs[2].status = SUCCESS
    /\ \A i \in 1..Len(Pairs) : raw[Pairs[i]] = "rawA"
    /\ crests = {}

\* An invocation's control reaches label l in this step.
Starts(p, l) == pc[p] # l /\ pc'[p] = l

\* C21: in the full pipeline the tracked unit of a pair starts only from an
\* ingest that returned, and that step wrote the pair's raw artifact; the raw
\* artifact stays present whatever the later stages do; the transform starts
\* only in the tracked unit just created, the load only from a transform that
\* returned a table, the publish only from a load that returned, and the
\* unit is recorded SUCCESS only after the publish returned.
C21_StageOrder ==
    /\ [](\A p \in Procs : (kind[p] = FULL /\ runId[p] # 0) =>
            raw[Scope(p)] # NoObject)
    /\ [][\A p \in Procs : kind[p] = FULL =>
            /\ Starts(p, "track_create") =>
                  /\ pc[p] = "ingest"
                  /\ \E r \in Responses :
                        raw' = [raw EXCEPT ![Pairs[idx[p]]] = r]
            /\ Starts(p, "transform") =>
                  (pc[p] = "track_create" /\ runId'[p] = Len(runs'))
            /\ Starts(p, "load_delete") =>
                  (pc[p] = "transform" /\ df'[p] = FlattenClean(raw[Scope(p)]))
            /\ Starts(p, "load_insert") => pc[p] = "load_delete"
            /\ Starts(p, "publish") =>
                  /\ pc[p] = "load_insert"
                  /\ RowsOfScope(rows', Scope(p)[1], Scope(p)[2])
                        = Loaded(df[p], Scope(p))
            /\ Starts(p, "track_finish") =>
                  (pc[p] = "publish" /\ processed'[Scope(p)] = df[p])
            /\ runId[p] # 0 => raw' = raw]_vars

\* C21 witness: a full pipeline went through the four stages of a pair: the
\* raw artifact it ingested, the rows and the processed artifact made from
\* it, and the unit about to be recorded.
C21_Witness ==
    /\ kind[1] = FULL /\ pc[1] = "track_finish"
    /\ raw[Scope(1)] = "rawA" /\ processed[Scope(1)] = "tA"
    /\ RowsOfScope(rows, Scope(1)[1], Scope(1)[2]) = Loaded("tA", Scope(1))

\* C22: whenever a processed artifact exists for a pair, the raw artifact
\* stored for that pair transforms without error and the processed artifact
\* is the table that transform returns.
C22_ProcessedDerivable ==
    \A k \in AllPairs : processed[k] # NoObject =>
        /\ ~TransformRaises(raw[k], TRUE)
        /\ processed[k] = FlattenClean(raw[k])

\* `not leagues or not seasons`
EmptyConfig == leagues = <<>> \/ seasons = <<>>

C24_ExitStatusOnlyOnConflict ==
    \A p \in Procs : (kind[p] \in {FULL, REBUILD} /\ pc[p] = "done") =>
        (ExitStatus(result[p]) # 0 <=> result[p] = "lock_conflict")

\* C29: cleaning the result of clean gives that result again: same rows,
\* same columns, same order, same index labels.
C29_CleanIdempotent ==
    cleaner.pc = "twice" => cleaner.twice = cleaner.once

\* C29 witness: a table with a duplicated row and a row without fixture id
\* was cleaned twice; the first pass removed rows.
C29_Witness ==
    /\ cleaner.pc = "twice"
    /\ Len(cleaner.input) = 3 /\ Len(cleaner.once) = 1
    /\ \E i \in 1..3 : cleaner.input[i].row.fixture_id = Null
    /\ \E i, j \in 1..3 : i < j /\ cleaner.input[i].row = cleaner.input[j].row

\* The rows of a DataFrame in order, index labels left out.
RowsAt(f) == [i \in 1..Len(f) |-> f[i].row]

\* Position of the first occurrence of row r in table t.
FirstAt(t, r) ==
    CHOOSE i \in 1..Len(t) : t[i] = r /\ \A j \in 1..(i - 1) : t[j] # r

\* C30: the result of clean holds exactly the input rows with a fixture id,
\* each row once, ordered by their first occurrence in the input; an empty
\* input comes back empty.
C30_CleanResult ==
    cleaner.pc # "new" =>
        LET t == RowsAt(cleaner.input)
            o == RowsAt(cleaner.once)
        IN /\ {o[i] : i \in 1..Len(o)}
                = {t[i] : i \in {j \in 1..Len(t) : t[j].fixture_id # Null}}
           /\ \A i, j \in 1..Len(o) :
                 i < j => (o[i] # o[j] /\ FirstAt(t, o[i]) < FirstAt(t, o[j]))
           /\ t = <<>> => o = <<>>

\* C30 witness: the input is row a, row b, row a again, all with a fixture
\* id; the result is a, b.
C30_Witness ==
    /\ cleaner.pc = "once"
    /\ Len(cleaner.input) = 3 /\ Len(cleaner.once) = 2
    /\ cleaner.input[1].row = cleaner.input[3].row
    /\ cleaner.input[1].row # cleaner.input[2].row
    /\ RowsAt(cleaner.once) = <<cleaner.input[1].row, cleaner.input[2].row>>

\* Inside or past the crest sync loop of the call in progress.
InCrestSync == ingester.pc \in {"crest", "upload", "return"}

\* fetch_fixtures of the call in progress has returned.
FetchReturned ==
    ingester.pc \in {"bucket", "collect", "sync_bucket", "crest", "upload",
                     "return"}

\* C25: in run_ingest the raw artifact of the scope has been written by the
\* time the first crest is checked, downloaded or stored, and a call that
\* returns has written the raw artifact and returns its key.
C25_RawStoredBeforeCrests ==
    /\ ingester.pc = "crest" => ingester.cur.wrote
    /\ ingester.last.how = "returned" =>
          (ingester.last.wrote /\ ingester.last.key = ingester.last.scope)

\* C26: no exception leaves run_ingest from inside the crest sync, and once
\* the sync is over _ensure_crest was called for every team of the response.
C26_CrestSyncNeverAborts ==
    /\ ingester.last.how = "raised" => ingester.last.stage # "sync"
    /\ InCrestSync /\ ingester.pc # "crest" =>
          Len(ingester.cur.handled) = Len(ingester.cur.todo)

PageNumbers(n) == [i \in 1..n |-> i]

\* Result arrays put one after the other.
RECURSIVE Concat(_)
Concat(pages) ==
    IF pages = <<>> THEN <<>> ELSE Head(pages) \o Concat(Tail(pages))

C31_NeverBrokenAutomatically ==
    /\ [](lock = Other =>
            \A p \in Procs : kind[p] \in Kinds =>
                /\ ~held[p] /\ ~InBody(p)
                /\ result[p] \in {"running", "lock_conflict"}
                /\ pc[p] = "done" => result[p] = "lock_conflict")
    /\ [][site'.stale # site.stale => lock' = lock]_vars
    /\ [][(lock = Other /\ lock' # Other) => (pc' = pc /\ site' = site)]_vars

\* C31 witness: the abandoned marker is still there after is_stale_lock
\* called it stale and after every invocation ended in a lock conflict.
C31_Witness ==
    /\ lock = Other /\ site.stale = "yes"
    /\ \A p \in Procs : kind[p] \in Kinds /\ pc[p] = "done"
    /\ \A p \in Procs : result[p] = "lock_conflict"
    /\ \E p \in Procs : kind[p] = STANDALONE

\* The ways pipeline_rebuild answers: a message and the redirect.
ViewRedirects == {"already_running", "completed", "failed"}

\* C33 (as claimed): a lock conflict reaches the user of the rebuild trigger
\* as an 'already running' outcome and never as a crash: when the command
\* pipeline_rebuild runs meets a lock conflict, also one that arose after the
\* view's own existence check, the view still answers with its redirect and a
\* message.
C33_ConflictNeverCrashesTrigger ==
    \A p \in Procs :
        (site.caller = p /\ result[p] = "lock_conflict" /\ site.answer # "none")
            => site.answer \in ViewRedirects

\* C36 (as claimed): no invocation's release removes the marker while the
\* invocation that created it is still executing its pipeline body.  A
\* command that is in its body created the marker itself (its create is
\* exclusive), so no other invocation's release may remove the marker then.
C36_OnlyCreatorRemoves ==
    [][\A p \in Procs :
          (pc[p] = "release" /\ pc'[p] = "done"
             /\ PathExists(lock) /\ ~PathExists(lock'))
          => ~\E q \in Procs \ {p} :
                 kind[q] # STANDALONE /\ held[q] /\ InBody(q)]_vars

\* C37 (as claimed): every write to the object store (raw, processed, crest)
\* and to the fixture rows made by any entrypoint happens while that
\* entrypoint holds the pipeline lock, so a raw artifact is never overwritten
\* while another invocation is between its ingest and its transform of the
\* same scope.
C37_WritesUnderLock ==
    [][\A p \in Procs :
          (pc'[p] # pc[p]
             /\ (raw' # raw \/ processed' # processed \/ rows' # rows
                   \/ crests' # crests))
          => /\ held[p]
             /\ \A q \in Procs \ {p} :
                   pc[q] \in {"track_create", "transform"} =>
                       raw'[Scope(q)] = raw[Scope(q)]]_vars

\* C32 (as claimed): after all pairs of an invocation have been attempted, in
\* the full pipeline and in the rebuild alike, the presentation cache is
\* cleared before the lock is released: a command that leaves its loops
\* after the last pair goes through cache.clear() on its way to the release,
\* and a failing clear changes neither the outcome nor the release.
C32_CacheClearedBeforeRelease ==
    [][\A p \in Procs :
          /\ (kind[p] \in {FULL, REBUILD} /\ Len(Pairs) > 0
                /\ pc[p] # "release" /\ pc'[p] = "release" /\ exc'[p] = "")
             => pc[p] = "cache_clear"
          /\ (pc[p] = "cache_clear" /\ pc'[p] # pc[p])
             => (pc'[p] = "release" /\ exc'[p] = exc[p])]_vars

\* C35: in a rebuild, a processed artifact that exists but deserializes to an
\* empty table is treated like a missing one: no tracked unit loads from it,
\* reading it deletes nothing, writes nothing and raises nothing, and the
\* pair goes to the raw check; from there the transform runs only if a raw
\* artifact exists, and without one the pair is skipped with its rows and
\* run records as they were.
C35_EmptyProcessedLikeMissing ==
    /\ [](\A p \in Procs : kind[p] = REBUILD =>
            /\ tag[p] = SRC_PROCESSED => processed[Scope(p)] # "tE"
            /\ \A i \in 1..Len(Pairs) :
                  (processed[Pairs[i]] = "tE" /\ raw[Pairs[i]] = NoObject) =>
                      /\ RunsOf(Pairs[i]) = {}
                      /\ RowsOfScope(rows, Pairs[i][1], Pairs[i][2])
                            = RowsOfScope(OldRows, Pairs[i][1], Pairs[i][2]))
    /\ [][\A p \in Procs :
            (kind[p] = REBUILD /\ pc'[p] # pc[p] /\ idx[p] > 0
               /\ processed[Scope(p)] = "tE") =>
                /\ pc[p] = "read_processed" =>
                      /\ pc'[p] = "raw_exists" /\ tag'[p] = "" /\ exc'[p] = ""
                      /\ UNCHANGED <<rows, runs, raw, processed>>
                /\ pc[p] = "raw_exists" =>
                      /\ UNCHANGED <<rows, runs, raw, processed>>
                      /\ \/ pc'[p] = "transform" /\ raw[Scope(p)] # NoObject
                         \/ LET a == AfterPair(REBUILD, idx[p], Len(Pairs)) IN
                              pc'[p] = a.pc /\ idx'[p] = a.idx]_vars

\* C35 witness: a rebuild read an empty processed artifact, left the rows
\* alone, found the raw artifact and is about to transform it.
C35_Witness ==
    /\ kind[1] = REBUILD /\ pc[1] = "transform"
    /\ processed[Scope(1)] = "tE" /\ raw[Scope(1)] = "rawA"
    /\ df[1] = "tE" /\ rows = OldRows /\ runs = <<>>

\* C38 (as claimed): no run record is left RUNNING once the
\* run_with_pipeline_run call that created it has ended: whether the callable
\* returned, raised an exception or was ended by a non-Exception interruption
\* (SystemExit, KeyboardInterrupt), the record is SUCCESS or FAILED and has a
\* finish timestamp when control leaves the tracker.
C38_NoRunLeftRunning ==
    tracker.last.ended # "none" =>
        /\ runs[tracker.last.id].status \in {SUCCESS, FAILED}
        /\ runs[tracker.last.id].finished_at # NoTime

\* C39 (as claimed): load_fixtures_dataframe is idempotent on the whole
\* relational store: load(table, L, Y) twice in succession leaves the same
\* rows as once, and every row a load inserts has league_id = L and
\* league_season = Y, also for tables whose rows carry other league or season
\* values.
C39_LoadIdempotent ==
    (loader.pc = "idle" /\ loader.last.ended = "returned") =>
        LET l == loader.last.scope[1]
            y == loader.last.scope[2]
            inserted == rows (-) DeleteScope(loader.last.before, l, y)
        IN /\ \A r \in BagToSet(inserted) :
                 r.league_id = l /\ r.league_season = y
           /\ (/\ loader.prev.ended = "returned"
               /\ loader.prev.scope = loader.last.scope
               /\ loader.prev.table = loader.last.table) =>
                  rows = loader.last.before

\* The load a read is compared with: the one in progress, else the last one
\* that ended; the Fixture table before it and after it went through.
ReadAgainst == IF loader.pc = "insert" THEN loader.call ELSE loader.last

TableBefore ==
    IF loader.pc = "idle" /\ loader.last.ended = "none" THEN OldRows
    ELSE ReadAgainst.before

TableAfter ==
    IF loader.pc = "idle" /\ loader.last.ended = "none" THEN OldRows
    ELSE LET l == ReadAgainst.scope[1]
             y == ReadAgainst.scope[2]
         IN BulkCreate(DeleteScope(ReadAgainst.before, l, y),
                       Records(ReadAgainst.table, l, y))

====
